---- MODULE Spec2Model ----
(***************************************************************************)
(* A model of the sumo head-to-head pipeline: the entity resolver          *)
(* (database_ops.match_ID), the temporal discount engine                   *)
(* (ml_fxns.discount_weight, ml_fxns.calculate_h2h_wp), the two callers    *)
(* of the aggregation (feature_generation.py and ml_fxns.predict_outcome), *)
(* the rank scale (ml_fxns.map_rank) and the parsers of one raw field      *)
(* (data_extraction.py).                                                   *)
(*                                                                         *)
(* Conventions.  Dates are integers counting days, except in the parsers,  *)
(* where a datetime is a record [year, month, day].  A text is a sequence  *)
(* of one-character strings, so that Python's `a in b` on texts is the     *)
(* contiguous-subsequence test.  A missing cell (None, NaN, NaT) is the    *)
(* value NA.  Real numbers are fixed-point integers in units of 1/Scale,   *)
(* and quotients are kept as fractions [num, den].                         *)
(***************************************************************************)
EXTENDS Integers, Sequences, FiniteSets, TLC

VARIABLES
    \* ---- database_ops.match_ID ----
    filtered_df,      \* the reference table: a sequence of profile rows
    m_args,           \* the arguments shikona, sumo_stable, bday, debut
    m_pc,             \* position in match_ID
    shikona,          \* the local `shikona` (rebound at line 60)
    ID_df,            \* the rows (as indices of filtered_df) of the last filter
    ID,               \* the local `ID`
    compiled_stats,   \* the profile returned by rikishi_scrape.basic_scrape
    m_exc,            \* the exception that ended the call, if any
    m_trace,          \* the steps taken so far, in order
    \* ---- ml_fxns.discount_weight ----
    dw_current_date,     \* the argument current_date
    dw_previous_date,    \* the argument previous_date
    dw_discount_factor,  \* the argument discount_factor
    dw_weight,           \* the value returned by the last call, NA before it
    \* ---- feature_generation.py and ml_fxns.predict_outcome ----
    h2h_pkl,          \* data/recent_full_h2h.pkl, as both programs load it
    f_pc,             \* position in the program that runs
    h2h_df,           \* feature_generation's table: rows with their labels
    f_pos,            \* position of the loop in h2h_df
    counter,          \* the loop's progress counter
    compiled_dicts,   \* the feature rows collected so far
    h2h_call,         \* the last call of calculate_h2h_wp, NA before it
    \* ---- the text functions: ml_fxns.map_rank and data_extraction.py ----
    t_fn,             \* the function that is called
    t_args,           \* its arguments
    t_ret,            \* how the call ended, NA before it
    \* ---- scrape_multiple_h2h.py ----
    s_pc,             \* position in the script
    s_ind,            \* `ind`: the index of the next row of the database page
    s_row_jump,       \* `row_jump`: the first index that is processed
    s_h2h_df,         \* `h2h_df`: the bout rows accumulated so far
    temp_full_h2h,    \* data/temp_full_h2h.pkl, NA while it is not written
    s_subject,        \* the profile and bout page behind the last row, NA before
    s_step,           \* how far the last pass of the loop got
    s_data_rows,      \* what full_h2h_scrape returned in the last pass
    s_exc             \* the exception that stopped the script, if any

vars_match == <<filtered_df, m_args, m_pc, shikona, ID_df, ID, compiled_stats,
                m_exc, m_trace>>

vars_dw == <<dw_current_date, dw_previous_date, dw_discount_factor, dw_weight>>

vars_feat == <<h2h_pkl, f_pc, h2h_df, f_pos, counter, compiled_dicts, h2h_call>>

vars_text == <<t_fn, t_args, t_ret>>

vars_batch == <<s_pc, s_ind, s_row_jump, s_h2h_df, temp_full_h2h, s_subject, s_step,
                s_data_rows, s_exc>>

vars == <<vars_match, vars_dw, vars_feat, vars_text, vars_batch>>

----------------------------------------------------------------------------
(* Shared values *)

\* a missing value (None, NaN, NaT); a present value v is the one-element
\* sequence Some(v)
NA == <<>>

Some(v) == <<v>>

Get(c) == c[1]

\* Python's `a in b` for texts
IsSubstring(a, b) ==
    \E i \in 0..(Len(b) - Len(a)) : SubSeq(b, i + 1, i + Len(a)) = a

Abs(x) == IF x < 0 THEN 0 - x ELSE x

\* pandas' elementwise `column == value`: a missing cell on either side
\* compares unequal
PdEq(cell, value) == cell # NA /\ value # NA /\ cell = value

\* ---- texts ----

Digits == {"0", "1", "2", "3", "4", "5", "6", "7", "8", "9"}

DigitValue(c) ==
    CASE c = "0" -> 0 [] c = "1" -> 1 [] c = "2" -> 2 [] c = "3" -> 3
      [] c = "4" -> 4 [] c = "5" -> 5 [] c = "6" -> 6 [] c = "7" -> 7
      [] c = "8" -> 8 [] c = "9" -> 9

IsDigits(t) == t # <<>> /\ \A k \in DOMAIN t : t[k] \in Digits

\* the number a text of digits writes
RECURSIVE DigitsValue(_)
DigitsValue(t) ==
    IF t = <<>> THEN 0
    ELSE 10 * DigitsValue(SubSeq(t, 1, Len(t) - 1)) + DigitValue(t[Len(t)])

\* the characters str.strip() removes
Whitespace == {" "}

\* str.strip()
Strip(t) ==
    LET inner == {k \in DOMAIN t : t[k] \notin Whitespace}
    IN  IF inner = {} THEN <<>>
        ELSE SubSeq(t, CHOOSE k \in inner : \A j \in inner : k <= j,
                       CHOOSE k \in inner : \A j \in inner : j <= k)

\* int(t): Some(n), or NA where int raises ValueError
IntOf(t) ==
    LET u == Strip(t)
        signed == u # <<>> /\ u[1] \in {"+", "-"}
        body == IF signed THEN Tail(u) ELSE u
    IN  IF ~IsDigits(body) THEN NA
        ELSE IF signed /\ u[1] = "-" THEN Some(0 - DigitsValue(body))
        ELSE Some(DigitsValue(body))

\* the positions at which sep starts in t
Occurrences(t, sep) ==
    {i \in 1..(Len(t) - Len(sep) + 1) : SubSeq(t, i, i + Len(sep) - 1) = sep}

\* t.split(sep)
RECURSIVE Split(_, _)
Split(t, sep) ==
    LET occ == Occurrences(t, sep)
    IN  IF occ = {} THEN <<t>>
        ELSE LET i == CHOOSE k \in occ : \A j \in occ : k <= j
             IN  <<SubSeq(t, 1, i - 1)>> \o Split(SubSeq(t, i + Len(sep), Len(t)), sep)

\* how a call of a function ends: with a value, or with an exception
Returned(v) == [exc |-> "none", value |-> v]

Raised(type) == [exc |-> type]

----------------------------------------------------------------------------
(* database_ops.match_ID *)

\* the largest reference table explored
MaxRows == 2

\* timedelta(days=365)
YearDays == 365

\* rikishi_df['rikishi_ID'] = rikishi_df.index: the identifier of the row at
\* position i is unique; filtering leaves gaps, kept here by a stride
RikishiID(i) == 10 * i + 1

TableShikona == {Some(<<"a", "b">>), Some(<<"a">>)}
TableDates   == {Some(0), Some(2 * YearDays + 1)}
TableHeight  == {NA, Some(180)}

\* the profile rows a reference table may hold (identity evidence all present)
ProfilePool ==
    [shikona : TableShikona, sumo_stable : {Some(<<"s", "t">>)}, bday : TableDates,
     debut : TableDates, height : TableHeight, weight : {Some(150)}]

Tables == UNION {[1..n -> ProfilePool] : n \in 0..MaxRows}

\* the evidence read from a title attribute (full_h2h_scrape passes it on
\* only when stable, birth date and debut are all present)
QueryArgs ==
    [shikona : {<<"a">>, <<"b">>, <<"c">>},
     sumo_stable : {<<"s">>, <<"u">>},
     bday : {YearDays, YearDays + 1},
     debut : {YearDays, YearDays + 1}]

\* what a live re-fetch of the profile page may deliver
FetchedProfiles ==
    [shikona : TableShikona, sumo_stable : {Some(<<"s", "t">>), NA},
     bday : TableDates, debut : TableDates,
     height : TableHeight, weight : {Some(150), Some(151)}]

NoStats == [fetched |-> FALSE]
NoExc   == [type |-> "none"]

Rows(df) == DOMAIN df

\* lines 34-35: name contains the given name and stable contains the given one
Tier1Logical(df, a) ==
    {i \in Rows(df) : /\ IsSubstring(a.shikona, Get(df[i].shikona))
                      /\ IsSubstring(a.sumo_stable, Get(df[i].sumo_stable))}

\* Tier2Logical with the window exclusive at 365 days
Tier2LogicalStrict(df, a) ==
    {i \in Rows(df) : /\ IsSubstring(a.shikona, Get(df[i].shikona))
                      /\ IsSubstring(a.sumo_stable, Get(df[i].sumo_stable))
                      /\ Abs(a.bday - Get(df[i].bday)) < YearDays
                      /\ Abs(a.debut - Get(df[i].debut)) < YearDays}

\* lines 43-48: the tier-1 conditions and both dates within 365 days
Tier2Logical(df, a) ==
    {i \in Rows(df) : /\ IsSubstring(a.shikona, Get(df[i].shikona))
                      /\ IsSubstring(a.sumo_stable, Get(df[i].sumo_stable))
                      /\ Abs(a.bday - Get(df[i].bday)) <= YearDays
                      /\ Abs(a.debut - Get(df[i].debut)) <= YearDays}

\* lines 72-74: exact equality with the re-fetched profile on six fields
Tier3Logical(df, s) ==
    {i \in Rows(df) : /\ PdEq(df[i].shikona, s.shikona)
                      /\ PdEq(df[i].bday, s.bday)
                      /\ PdEq(df[i].height, s.height)
                      /\ PdEq(df[i].weight, s.weight)
                      /\ PdEq(df[i].sumo_stable, s.sumo_stable)
                      /\ PdEq(df[i].debut, s.debut)}

\* Series.item(): the one element (callers have checked there is exactly one)
Item(df, rows) == RikishiID(CHOOSE i \in rows : TRUE)

IdleMatch ==
    /\ filtered_df = <<>>
    /\ m_args = NA
    /\ m_pc = "idle"
    /\ shikona = NA
    /\ ID_df = {}
    /\ ID = NA
    /\ compiled_stats = NoStats
    /\ m_exc = NoExc
    /\ m_trace = <<>>

IdleDW ==
    /\ dw_current_date = 0
    /\ dw_previous_date = 0
    /\ dw_discount_factor = 0
    /\ dw_weight = NA

IdleFeat ==
    /\ h2h_pkl = <<>>
    /\ f_pc = "idle"
    /\ h2h_df = <<>>
    /\ f_pos = 0
    /\ counter = 0
    /\ compiled_dicts = <<>>
    /\ h2h_call = NA

IdleText ==
    /\ t_fn = "none"
    /\ t_args = <<>>
    /\ t_ret = NA

IdleBatch ==
    /\ s_pc = "idle"
    /\ s_ind = 0
    /\ s_row_jump = 0
    /\ s_h2h_df = <<>>
    /\ temp_full_h2h = NA
    /\ s_subject = NA
    /\ s_step = "none"
    /\ s_data_rows = <<>>
    /\ s_exc = NoExc

InitMatch ==
    /\ IdleDW
    /\ IdleText
    /\ IdleFeat
    /\ IdleBatch
    /\ filtered_df \in Tables
    /\ m_args \in QueryArgs
    /\ m_pc = "tier1"
    /\ shikona = m_args.shikona
    /\ ID_df = {}
    /\ ID = NA
    /\ compiled_stats = NoStats
    /\ m_exc = NoExc
    /\ m_trace = <<>>

\* MatchTier1 escalating on any match, a unique one included
MatchTier1AlwaysEscalates ==
    /\ m_pc = "tier1"
    /\ LET rows == Tier1Logical(filtered_df, m_args) IN
       /\ ID_df' = rows
       /\ ID' = NA
       /\ m_pc' = IF Cardinality(rows) >= 1 THEN "tier2" ELSE "check"
    /\ m_trace' = Append(m_trace, "tier1")
    /\ UNCHANGED <<filtered_df, m_args, shikona, compiled_stats, m_exc>>
    /\ UNCHANGED <<vars_dw, vars_feat, vars_text, vars_batch>>

\* lines 28-40: the name-and-stable filter
MatchTier1 ==
    /\ m_pc = "tier1"
    /\ LET rows == Tier1Logical(filtered_df, m_args) IN
       /\ ID_df' = rows
       /\ ID' = IF Cardinality(rows) = 1 THEN Some(Item(filtered_df, rows)) ELSE NA
       /\ m_pc' = IF Cardinality(rows) > 1 THEN "tier2" ELSE "check"
    /\ m_trace' = Append(m_trace, "tier1")
    /\ UNCHANGED <<filtered_df, m_args, shikona, compiled_stats, m_exc>>
    /\ UNCHANGED <<vars_dw, vars_feat, vars_text, vars_batch>>

\* MatchTier2 escalating to the re-fetch when no row is left
MatchTier2EscalatesOnNone ==
    /\ m_pc = "tier2"
    /\ LET rows == Tier2Logical(filtered_df, m_args) IN
       /\ ID_df' = rows
       /\ ID' = IF Cardinality(rows) = 1 THEN Some(Item(filtered_df, rows)) ELSE NA
       /\ m_pc' = IF Cardinality(rows) # 1 THEN "tier3" ELSE "check"
    /\ m_trace' = Append(m_trace, "tier2")
    /\ UNCHANGED <<filtered_df, m_args, shikona, compiled_stats, m_exc>>
    /\ UNCHANGED <<vars_dw, vars_feat, vars_text, vars_batch>>

\* MatchTier2 giving up on an ambiguous result instead of escalating
MatchTier2GivesUp ==
    /\ m_pc = "tier2"
    /\ LET rows == Tier2Logical(filtered_df, m_args) IN
       /\ ID_df' = rows
       /\ ID' = IF Cardinality(rows) = 1 THEN Some(Item(filtered_df, rows)) ELSE NA
       /\ m_pc' = "check"
    /\ m_trace' = Append(m_trace, "tier2")
    /\ UNCHANGED <<filtered_df, m_args, shikona, compiled_stats, m_exc>>
    /\ UNCHANGED <<vars_dw, vars_feat, vars_text, vars_batch>>

\* lines 42-53: the filter with the two date conditions added
MatchTier2 ==
    /\ m_pc = "tier2"
    /\ LET rows == Tier2Logical(filtered_df, m_args) IN
       /\ ID_df' = rows
       /\ ID' = IF Cardinality(rows) = 1 THEN Some(Item(filtered_df, rows)) ELSE NA
       /\ m_pc' = IF Cardinality(rows) > 1 THEN "tier3" ELSE "check"
    /\ m_trace' = Append(m_trace, "tier2")
    /\ UNCHANGED <<filtered_df, m_args, shikona, compiled_stats, m_exc>>
    /\ UNCHANGED <<vars_dw, vars_feat, vars_text, vars_batch>>

\* MatchTier3 taking the first of several exact matches (.iloc[0] for .item())
MatchTier3TakesFirst ==
    /\ m_pc = "tier3"
    /\ \E s \in FetchedProfiles :
         LET rows == Tier3Logical(filtered_df, s) IN
         /\ compiled_stats' = [fetched |-> TRUE, profile |-> s]
         /\ shikona' = Get(s.shikona)
         /\ ID_df' = rows
         /\ IF Cardinality(rows) >= 1
            THEN /\ ID' = Some(Item(filtered_df, rows))
                 /\ m_pc' = "check"
                 /\ m_exc' = m_exc
            ELSE /\ ID' = ID
                 /\ m_pc' = "raised"
                 /\ m_exc' = [type |-> "ValueError"]
    /\ m_trace' = Append(m_trace, "fetch")
    /\ UNCHANGED <<filtered_df, m_args>>
    /\ UNCHANGED <<vars_dw, vars_feat, vars_text, vars_batch>>

\* lines 55-75: the live re-fetch and the exact filter; .item() on a
\* selection that is not of size one raises ValueError there and then
MatchTier3 ==
    /\ m_pc = "tier3"
    /\ \E s \in FetchedProfiles :
         LET rows == Tier3Logical(filtered_df, s) IN
         /\ compiled_stats' = [fetched |-> TRUE, profile |-> s]
         /\ shikona' = Get(s.shikona)
         /\ ID_df' = rows
         /\ IF Cardinality(rows) = 1
            THEN /\ ID' = Some(Item(filtered_df, rows))
                 /\ m_pc' = "check"
                 /\ m_exc' = m_exc
            ELSE /\ ID' = ID
                 /\ m_pc' = "raised"
                 /\ m_exc' = [type |-> "ValueError"]
    /\ m_trace' = Append(m_trace, "fetch")
    /\ UNCHANGED <<filtered_df, m_args>>
    /\ UNCHANGED <<vars_dw, vars_feat, vars_text, vars_batch>>

\* line 59: urllib2.urlopen fails inside basic_scrape; nothing catches it
MatchFetchFails ==
    /\ m_pc = "tier3"
    /\ m_pc' = "raised"
    /\ m_exc' = [type |-> "URLError"]
    /\ m_trace' = Append(m_trace, "fetch")
    /\ UNCHANGED <<filtered_df, m_args, shikona, ID_df, ID, compiled_stats>>
    /\ UNCHANGED <<vars_dw, vars_feat, vars_text, vars_batch>>

\* lines 77-80
MatchReturn ==
    /\ m_pc = "check"
    /\ IF ID = NA
       THEN /\ m_pc' = "raised"
            /\ m_exc' = [type |-> "Exception", text |-> "Could not find sumo ID for: ",
                         name |-> shikona]
       ELSE /\ m_pc' = "returned"
            /\ m_exc' = m_exc
    /\ UNCHANGED <<filtered_df, m_args, shikona, ID_df, ID, compiled_stats, m_trace>>
    /\ UNCHANGED <<vars_dw, vars_feat, vars_text, vars_batch>>

NextMatch ==
    \/ MatchTier1
    \/ MatchTier2
    \/ MatchTier3
    \/ MatchFetchFails
    \/ MatchReturn

SpecMatch == InitMatch /\ [][NextMatch]_vars

----------------------------------------------------------------------------
(* Properties of match_ID *)

Took(step) == \E k \in DOMAIN m_trace : m_trace[k] = step

MatchEnded == m_pc \in {"returned", "raised"}

\* reference rows whose name contains the given name and whose affiliation
\* contains the given affiliation
NameStableRows ==
    {i \in DOMAIN filtered_df :
        /\ IsSubstring(m_args.shikona, Get(filtered_df[i].shikona))
        /\ IsSubstring(m_args.sumo_stable, Get(filtered_df[i].sumo_stable))}

\* those of them born and debuting within 365 days of the given dates
DateRows ==
    {i \in NameStableRows :
        /\ m_args.bday - Get(filtered_df[i].bday) \in (0 - 365)..365
        /\ m_args.debut - Get(filtered_df[i].debut) \in (0 - 365)..365}

\* reference rows equal to the re-fetched profile on all six fields
SixFieldRows ==
    {i \in DOMAIN filtered_df :
        \A f \in {"shikona", "bday", "height", "weight", "sumo_stable", "debut"} :
            /\ filtered_df[i][f] # NA
            /\ filtered_df[i][f] = compiled_stats.profile[f]}

\* C1: when the tier-1 filter yields exactly one row the call returns that
\* row's identifier, and neither the tier-2 filter nor the re-fetch is run
C1_UniqueTier1ReturnsWithoutEscalation ==
    Cardinality(NameStableRows) = 1 =>
        /\ ~Took("tier2") /\ ~Took("fetch")
        /\ m_pc \in {"tier1", "check", "returned"}
        /\ m_pc \in {"check", "returned"} =>
              \A i \in NameStableRows : ID = Some(RikishiID(i))

C1_Witness ==
    /\ m_pc = "returned"
    /\ Cardinality(NameStableRows) = 1
    /\ Len(filtered_df) > 1

\* C2: a returned value is the identifier of exactly one reference row, and
\* after a re-fetch the call returns only if exactly one row equals the
\* re-fetched profile on all six fields, then with the identifier of that row
C2_ReturnsExactlyOneIdentifier ==
    /\ m_pc = "returned" =>
          /\ ID # NA
          /\ Cardinality({i \in DOMAIN filtered_df : RikishiID(i) = Get(ID)}) = 1
          /\ Cardinality(ID_df) = 1
          /\ \A i \in ID_df : RikishiID(i) = Get(ID)
    /\ (compiled_stats.fetched /\ m_pc \in {"check", "returned"}) =>
          /\ Cardinality(SixFieldRows) = 1
          /\ \A i \in SixFieldRows : ID = Some(RikishiID(i))
    /\ (compiled_stats.fetched /\ Cardinality(SixFieldRows) # 1) =>
          m_pc = "raised" /\ ID = NA

C2_Witness ==
    /\ m_pc = "returned"
    /\ compiled_stats.fetched
    /\ Cardinality(SixFieldRows) = 1
    /\ Cardinality(DateRows) > 1

\* C3: after an ambiguous tier 1 the tier-2 candidates are exactly the rows
\* passing the name and affiliation conditions with birth and debut dates
\* within 365 days (inclusive, either direction); a single candidate is
\* returned without a re-fetch
C3_Tier2CandidateSet ==
    /\ (Cardinality(NameStableRows) > 1 /\ m_pc = "tier2") => m_trace = <<"tier1">>
    /\ m_trace = <<"tier1", "tier2">> =>
          /\ ID_df = DateRows
          /\ Cardinality(DateRows) = 1 =>
                /\ m_pc \in {"check", "returned"}
                /\ \A i \in DateRows : ID = Some(RikishiID(i))
    /\ (Took("tier2") /\ Cardinality(DateRows) = 1) => ~Took("fetch")

C3_Witness ==
    /\ m_trace = <<"tier1", "tier2">>
    /\ m_pc = "returned"
    /\ Cardinality(NameStableRows) = 2
    /\ Cardinality(DateRows) = 1
    /\ \E i \in DateRows : /\ m_args.bday - Get(filtered_df[i].bday) = 365
                            /\ Get(filtered_df[i].debut) - m_args.debut = 365

\* C4: when tier 3 resolves to zero rows or to several, the call fails with
\* the error that names the unresolved competitor
C4_Tier3FailureNamesCompetitor ==
    (compiled_stats.fetched /\ Cardinality(SixFieldRows) # 1 /\ MatchEnded) =>
        /\ m_pc = "raised"
        /\ m_exc.type = "Exception"
        /\ m_exc.name = m_args.shikona

\* C5: an ambiguous tier 1 is followed by the tier-2 filter and an ambiguous
\* tier 2 by the live re-fetch; neither ends the call with an error
C5_AmbiguityEscalates ==
    /\ (Cardinality(NameStableRows) > 1 /\ m_trace # <<>>) =>
          \/ m_pc = "tier2" /\ ENABLED MatchTier2
          \/ Took("tier2")
    /\ (Cardinality(NameStableRows) > 1 /\ Cardinality(DateRows) > 1
           /\ Took("tier2")) =>
          \/ m_pc = "tier3" /\ ENABLED MatchTier3
          \/ Took("fetch")

C5_Witness ==
    /\ Cardinality(NameStableRows) > 1
    /\ Cardinality(DateRows) > 1
    /\ m_trace = <<"tier1", "tier2", "fetch">>
    /\ m_pc = "returned"

----------------------------------------------------------------------------
(* ml_fxns.discount_weight *)

\* fixed-point unit: a real x is the integer x * Scale, rounded down
Scale == 10000

\* the oldest event explored, in days before the reference date
MaxDays == 3800

\* the latest event explored, in days after the reference date
MaxAhead == 3

\* N = 100: the number of grid points
N == 100

\* the decay bases explored: 0.7, 0.8 (the one calculate_h2h_wp passes), 0.9
DiscountFactors == {7000, 8000, 9000}

\* np.power(d, time[1]) = d^(10/99) in fixed point
PowStep(d) ==
    CASE d = 7000 -> 9646
      [] d = 8000 -> 9777
      [] d = 9000 -> 9894

\* time = np.linspace(0, 10, N): time[i] = TimeNum(i) / (N - 1) years
TimeNum(i) == 10 * i

\* x multiplied k times by d^(10/99), each product cut to four decimal places
RECURSIVE Decay(_, _, _)
Decay(d, x, k) ==
    IF k = 0 \/ x = 0 THEN x
    ELSE IF k = 1 THEN (x * PowStep(d)) \div Scale
    ELSE Decay(d, Decay(d, x, k \div 2), k - (k \div 2))

\* exp_curve[i] = np.power(d, time[i]), by repeated multiplication
exp_curve(d, i) == Decay(d, Scale, i)

Min(a, b) == IF a <= b THEN a ELSE b

\* discount_weights = np.minimum(exp_curve, discount_factor)
discount_weights(d, i) == Min(exp_curve(d, i), d)

\* years_since = float(tdelta.days) / 365.25 = YearsNum(days) / 1461
YearsNum(days) == 4 * days

QuarterDays == 1461

\* |time[i] - years_since| on the common denominator (N - 1) * 1461
GridDistance(i, days) == Abs(TimeNum(i) * QuarterDays - YearsNum(days) * (N - 1))

\* np.argmax in place of np.argmin: the farthest grid point
ArgMax(days) ==
    LET dist == [i \in 0..(N - 1) |-> GridDistance(i, days)]
        most == CHOOSE m \in {dist[i] : i \in 0..(N - 1)} :
                    \A i \in 0..(N - 1) : dist[i] <= m
    IN  CHOOSE i \in 0..(N - 1) :
            dist[i] = most /\ \A j \in 0..(i - 1) : dist[j] # most

\* np.abs(time - years_since).argmin()
\* (the first index of the least distance)
ArgMin(days) ==
    LET dist == [i \in 0..(N - 1) |-> GridDistance(i, days)]
        least == CHOOSE m \in {dist[i] : i \in 0..(N - 1)} :
                     \A i \in 0..(N - 1) : m <= dist[i]
    IN  CHOOSE i \in 0..(N - 1) :
            dist[i] = least /\ \A j \in 0..(i - 1) : dist[j] # least

\* truncation to the grid point below in place of the nearest one
discount_weight_floor(current_date, previous_date, discount_factor) ==
    LET days == current_date - previous_date
        below == {i \in 0..(N - 1) : TimeNum(i) * QuarterDays <= YearsNum(days) * (N - 1)}
    IN  IF YearsNum(days) <= QuarterDays
        THEN discount_factor
        ELSE discount_weights(discount_factor,
                              CHOOSE i \in below : \A j \in below : j <= i)

\* lines 122-154
discount_weight(current_date, previous_date, discount_factor) ==
    LET days == current_date - previous_date
    IN  IF YearsNum(days) <= QuarterDays
        THEN discount_factor
        ELSE discount_weights(discount_factor, ArgMin(days))

InitDW ==
    /\ IdleMatch
    /\ IdleText
    /\ IdleFeat
    /\ IdleBatch
    /\ dw_discount_factor \in DiscountFactors
    /\ dw_previous_date = MaxAhead
    /\ dw_current_date = 0
    /\ dw_weight = NA

\* a first call, for the event dated MaxAhead days after the reference date
DiscountWeightCall ==
    /\ dw_weight = NA
    /\ dw_weight' = Some(discount_weight(dw_current_date, dw_previous_date,
                                         dw_discount_factor))
    /\ UNCHANGED <<dw_current_date, dw_previous_date, dw_discount_factor>>
    /\ UNCHANGED <<vars_match, vars_feat, vars_text, vars_batch>>

\* the same event seen from a reference date one day later
DiscountWeightNextDay ==
    /\ dw_weight # NA
    /\ dw_current_date - dw_previous_date < MaxDays
    /\ dw_current_date' = dw_current_date + 1
    /\ dw_weight' = Some(discount_weight(dw_current_date', dw_previous_date,
                                         dw_discount_factor))
    /\ UNCHANGED <<dw_previous_date, dw_discount_factor>>
    /\ UNCHANGED <<vars_match, vars_feat, vars_text, vars_batch>>

NextDW ==
    \/ DiscountWeightCall
    \/ DiscountWeightNextDay

SpecDW == InitDW /\ [][NextDW]_vars

----------------------------------------------------------------------------
(* Properties of discount_weight *)

dw_days == dw_current_date - dw_previous_date

\* grid points (as indices) at the least distance from years_since
NearestGridPoints ==
    LET away == [i \in 0..99 |-> Abs(10 * i * 1461 - 4 * dw_days * 99)]
        nearest == CHOOSE m \in {away[i] : i \in 0..99} : \A j \in 0..99 : m <= away[j]
    IN  {i \in 0..99 : away[i] = nearest}

\* C9: the weight is d when years_since <= 1 (events after the reference date
\* included); otherwise it is min(d^t, d) at the grid point t nearest to
\* years_since, which is the last grid point beyond 10 years
C9_WeightIsNearestGridValue ==
    dw_weight # NA =>
        IF 4 * dw_days <= 1461
        THEN dw_weight = Some(dw_discount_factor)
        ELSE /\ Cardinality(NearestGridPoints) = 1
             /\ \A i \in NearestGridPoints :
                  /\ dw_weight = Some(Min(exp_curve(dw_discount_factor, i),
                                          dw_discount_factor))
                  /\ 4 * dw_days > 10 * 1461 => i = 99

C9_Witness ==
    /\ dw_weight # NA
    /\ 4 * dw_days > 10 * 1461
    /\ dw_weight = Some(exp_curve(dw_discount_factor, 99))
    /\ Get(dw_weight) < dw_discount_factor

\* C10: 0 < weight <= d for every decay base and every years_since, and the
\* weight never grows as years_since grows, the one-year boundary included
C10_WeightBoundedAndNonIncreasing ==
    /\ [](dw_weight # NA =>
            0 < Get(dw_weight) /\ Get(dw_weight) <= dw_discount_factor)
    /\ [][(dw_weight # NA /\ dw_current_date' > dw_current_date) =>
            Get(dw_weight') <= Get(dw_weight)]_vars

C10_Witness ==
    /\ dw_weight # NA
    /\ dw_days = 366
    /\ Get(dw_weight) < dw_discount_factor

----------------------------------------------------------------------------
(* ml_fxns.map_rank, calculate_age, calculate_active_years *)

\* the names of the ten tiers, as texts
Tier ==
    [Yokozuna |-> <<"Y", "o", "k", "o", "z", "u", "n", "a">>,
     Ozeki |-> <<"O", "z", "e", "k", "i">>,
     Sekiwake |-> <<"S", "e", "k", "i", "w", "a", "k", "e">>,
     Komusubi |-> <<"K", "o", "m", "u", "s", "u", "b", "i">>,
     Maegashira |-> <<"M", "a", "e", "g", "a", "s", "h", "i", "r", "a">>,
     Juryo |-> <<"J", "u", "r", "y", "o">>,
     Makushita |-> <<"M", "a", "k", "u", "s", "h", "i", "t", "a">>,
     Sandanme |-> <<"S", "a", "n", "d", "a", "n", "m", "e">>,
     Jonidan |-> <<"J", "o", "n", "i", "d", "a", "n">>,
     Jonokuchi |-> <<"J", "o", "n", "o", "k", "u", "c", "h", "i">>]

title_list ==
    <<Tier.Maegashira, Tier.Juryo, Tier.Makushita, Tier.Sandanme, Tier.Jonidan,
      Tier.Jonokuchi>>

\* lines 43-53: the rank ranges 5 to 21, 22 to 35, 36 to 95, 96 to 195, 196 to
\* 320 and 321 to 365 hold this many numbers
tier_sizes == <<17, 14, 60, 100, 125, 45>>

\* offsets with the one of Juryo a place too low
offset_list_tight == <<4, 20, 35, 95, 195, 320>>

\* offsets that do not grow from Jonidan to Jonokuchi
offset_list_flat == <<4, 21, 35, 95, 195, 190>>

offset_list == <<4, 21, 35, 95, 195, 320>>

\* lines 59-67: num_rank after the four tests, a later hit replacing an
\* earlier one
NamedRank(current_rank) ==
    IF IsSubstring(Tier.Komusubi, current_rank) THEN Some(4)
    ELSE IF IsSubstring(Tier.Sekiwake, current_rank) THEN Some(3)
    ELSE IF IsSubstring(Tier.Ozeki, current_rank) THEN Some(2)
    ELSE IF IsSubstring(Tier.Yokozuna, current_rank) THEN Some(1)
    ELSE NA

\* lines 72-79: the outcome of the loop once a title is found at position ind
NumberedRank(current_rank, ind) ==
    LET parse_list == Split(current_rank, <<" ">>)
    IN  IF Len(parse_list) < 2 THEN Raised("IndexError")
        ELSE IF IntOf(parse_list[2]) = NA THEN Raised("ValueError")
        ELSE Returned(Get(IntOf(parse_list[2])) + offset_list[ind])

\* lines 35-84 without the test of lines 81-82
map_rank_unchecked(current_rank) ==
    LET hits == {k \in DOMAIN title_list : IsSubstring(title_list[k], current_rank)}
    IN  IF hits # {}
        THEN NumberedRank(current_rank, CHOOSE k \in hits : \A j \in hits : k <= j)
        ELSE Returned(NamedRank(current_rank))

\* lines 35-84
map_rank(current_rank) ==
    LET hits == {k \in DOMAIN title_list : IsSubstring(title_list[k], current_rank)}
    IN  IF hits # {}
        THEN NumberedRank(current_rank, CHOOSE k \in hits : \A j \in hits : k <= j)
        ELSE IF NamedRank(current_rank) = NA
             THEN Raised("Exception")
             ELSE Returned(Get(NamedRank(current_rank)))

Frac(n, d) == [num |-> n, den |-> d]

FracSub(a, b) == Frac(a.num * b.den - b.num * a.den, a.den * b.den)

FracNeg(a) == Frac(0 - a.num, a.den)

\* float(tdelta.days) / 365.25
calculate_age(date, bday) == Frac(4 * (date - bday), QuarterDays)

calculate_active_years(date, debut) == Frac(4 * (date - debut), QuarterDays)

----------------------------------------------------------------------------
(* ml_fxns.calculate_h2h_wp *)

\* the most bouts the pickled head-to-head table holds
MaxBouts == 3

\* datetime.now() when predict_outcome runs: later than every stored bout
Today == 800

BoutDates == {0, 400}

\* discount_factor=0.8
H2HDiscountFactor == 8000

\* the weights of line 187 for every gap between two dates of the model
WeightTable ==
    LET gaps == {a - b : a \in BoutDates \cup {Today}, b \in BoutDates}
        w == [g \in gaps |-> discount_weight(g, 0, H2HDiscountFactor)]
    IN  [g \in gaps |-> w[g]]

RECURSIVE SumSeq(_)
SumSeq(s) == IF s = <<>> THEN 0 ELSE Head(s) + SumSeq(Tail(s))

\* lines 190-211 without the exchange of lines 202-210: a row stored from the
\* other side is read like one stored from the subject's side
RowNumeratorsUnswitched(row, weight, ID1) ==
    IF row.outcome1 = "shiro" /\ row.outcome2 = "kuro"
    THEN <<<<weight>>, <<0>>>>
    ELSE IF row.outcome1 = "kuro" /\ row.outcome2 = "shiro"
         THEN <<<<0>>, <<weight>>>>
         ELSE <<<<>>, <<>>>>

\* lines 190-211: what one row appends to numerator1 and to numerator2;
\* a pair of outcomes that is neither win/loss nor loss/win appends nothing
RowNumerators(row, weight, ID1) ==
    IF row.ID1 = ID1
    THEN IF row.outcome1 = "shiro" /\ row.outcome2 = "kuro"
         THEN <<<<weight>>, <<0>>>>
         ELSE IF row.outcome1 = "kuro" /\ row.outcome2 = "shiro"
              THEN <<<<0>>, <<weight>>>>
              ELSE <<<<>>, <<>>>>
    ELSE IF row.ID2 = ID1
         THEN IF row.outcome1 = "shiro" /\ row.outcome2 = "kuro"
              THEN <<<<0>>, <<weight>>>>
              ELSE IF row.outcome1 = "kuro" /\ row.outcome2 = "shiro"
                   THEN <<<<weight>>, <<0>>>>
                   ELSE <<<<>>, <<>>>>
         ELSE <<<<>>, <<>>>>

\* lines 178-211: the three lists after the loop over rel_df
RECURSIVE H2HLists(_, _, _)
H2HLists(current_date, rel_df, ID1) ==
    IF rel_df = <<>>
    THEN [weight_list |-> <<>>, numerator1 |-> <<>>, numerator2 |-> <<>>]
    ELSE LET before == H2HLists(current_date, SubSeq(rel_df, 1, Len(rel_df) - 1), ID1)
             row == rel_df[Len(rel_df)]
             weight == WeightTable[current_date - row.date]
             add == RowNumerators(row, weight, ID1)
         IN  [weight_list |-> Append(before.weight_list, weight),
              numerator1 |-> before.numerator1 \o add[1],
              numerator2 |-> before.numerator2 \o add[2]]

\* lines 159-216 with the default of lines 174-175 given to the first competitor
calculate_h2h_wp_first_favoured(current_date, rel_df, ID1) ==
    IF rel_df = <<>>
    THEN <<Frac(1, 1), Frac(0, 1)>>
    ELSE LET l == H2HLists(current_date, rel_df, ID1)
         IN  <<Frac(SumSeq(l.numerator1), SumSeq(l.weight_list)),
               Frac(SumSeq(l.numerator2), SumSeq(l.weight_list))>>

\* lines 159-216: the pair <<h2h_wp1, h2h_wp2>>
calculate_h2h_wp(current_date, rel_df, ID1) ==
    IF rel_df = <<>>
    THEN <<Frac(1, 2), Frac(1, 2)>>
    ELSE LET l == H2HLists(current_date, rel_df, ID1)
         IN  <<Frac(SumSeq(l.numerator1), SumSeq(l.weight_list)),
               Frac(SumSeq(l.numerator2), SumSeq(l.weight_list))>>

----------------------------------------------------------------------------
(* feature_generation.py and ml_fxns.predict_outcome *)

\* the reference table after the filters of lines 27-42: two competitors with
\* every feature present; the identifier RikishiID(3) is in no row
feature_table ==
    <<[shikona |-> <<"a", "b">>, bday |-> 0 - 7300, debut |-> 0 - 1500,
       height |-> 180, weight |-> 150],
      [shikona |-> <<"c", "d">>, bday |-> 0 - 7700, debut |-> 0 - 1100,
       height |-> 185, weight |-> 140]>>

Rank(title, numeral) == title \o <<" ">> \o numeral

\* unicode(None): what the scrape stores for a missing rank or kimarite
NoneText == <<"N", "o", "n", "e">>

Bout(date, ID1, ID2, rank1, rank2, outcome1, outcome2, kimarite) ==
    [date |-> date, ID1 |-> ID1, ID2 |-> ID2, rank1 |-> rank1, rank2 |-> rank2,
     outcome1 |-> outcome1, outcome2 |-> outcome2, kimarite |-> kimarite]

\* bouts between the two competitors of the reference table: stored from
\* either side, won by either, on either date
CleanBouts ==
    {Bout(0, RikishiID(1), RikishiID(2), Rank(Tier.Maegashira, <<"2">>), Rank(Tier.Yokozuna, <<"1">>),
          "shiro", "kuro", <<"y", "o", "r", "i", "k", "i", "r", "i">>),
     Bout(400, RikishiID(1), RikishiID(2), Rank(Tier.Maegashira, <<"2">>), Rank(Tier.Yokozuna, <<"1">>),
          "kuro", "shiro", <<"y", "o", "r", "i", "k", "i", "r", "i">>),
     Bout(400, RikishiID(2), RikishiID(1), Rank(Tier.Yokozuna, <<"1">>), Rank(Tier.Maegashira, <<"2">>),
          "shiro", "kuro", <<"y", "o", "r", "i", "k", "i", "r", "i">>),
     Bout(0, RikishiID(2), RikishiID(1), Rank(Tier.Yokozuna, <<"1">>), Rank(Tier.Maegashira, <<"2">>),
          "kuro", "shiro", <<"y", "o", "r", "i", "k", "i", "r", "i">>)}

\* a bout against a competitor outside the reference table, a default, a
\* draw, and a bout stored without a rank
OtherBouts ==
    {Bout(0, RikishiID(1), RikishiID(3), Rank(Tier.Maegashira, <<"2">>), Rank(Tier.Juryo, <<"3">>),
          "shiro", "kuro", <<"y", "o", "r", "i", "k", "i", "r", "i">>),
     Bout(0, RikishiID(1), RikishiID(2), Rank(Tier.Maegashira, <<"2">>), Rank(Tier.Yokozuna, <<"1">>),
          "fusensho", "fusenpai", <<"f", "u", "s", "e", "n">>),
     Bout(0, RikishiID(1), RikishiID(2), Rank(Tier.Maegashira, <<"2">>), Rank(Tier.Yokozuna, <<"1">>),
          "hikiwake", "hikiwake", <<"h", "i", "k", "i", "w", "a", "k", "e">>),
     Bout(0, RikishiID(1), RikishiID(2), NoneText, Rank(Tier.Yokozuna, <<"1">>),
          "shiro", "kuro", <<"y", "o", "r", "i", "k", "i", "r", "i">>)}

BoutPool == CleanBouts \cup OtherBouts

\* h2h_df.append(data_rows, ignore_index=True): labels 0, 1, 2, ...
Labelled(bouts) ==
    [i \in DOMAIN bouts |->
        [label |-> i - 1, date |-> bouts[i].date,
         ID1 |-> bouts[i].ID1, ID2 |-> bouts[i].ID2,
         rank1 |-> bouts[i].rank1, rank2 |-> bouts[i].rank2,
         outcome1 |-> bouts[i].outcome1, outcome2 |-> bouts[i].outcome2,
         kimarite |-> bouts[i].kimarite]]

PickledTables == UNION {{Labelled(t) : t \in [1..n -> BoutPool]} : n \in 0..MaxBouts}

\* filtered_df[filtered_df['rikishi_ID'] == x]
RikishiRows(x) == {i \in DOMAIN feature_table : RikishiID(i) = x}

\* Series.item() on one column of a one-row selection
ItemOf(rows, column) == feature_table[CHOOSE i \in rows : TRUE][column]

\* lines 49-50
RanksPresent(r) == r.rank1 # NoneText /\ r.rank2 # NoneText /\ r.kimarite # NoneText

\* lines 53-55
BinaryOutcomes(r) ==
    /\ (r.outcome1 = "shiro" \/ r.outcome1 = "kuro")
    /\ (r.outcome2 = "shiro" \/ r.outcome2 = "kuro")

\* line 58: sort_values(by='date') with the default quicksort, which fixes no
\* order among rows of one date
SortedByDate(df) ==
    LET n == Len(df)
        orders == {p \in [1..n -> 1..n] :
                     /\ \A i, j \in 1..n : i # j => p[i] # p[j]
                     /\ \A i, j \in 1..n : i < j => df[p[i]].date <= df[p[j]].date}
    IN  {[i \in 1..n |-> df[p[i]]] : p \in orders}

\* RelDf with the bouts of the date itself let in
RelDfUpToDate(df, ID1, ID2, date) ==
    LET PairUpToDate(r) ==
            /\ (r.ID1 = ID1 /\ r.ID2 = ID2) \/ (r.ID1 = ID2 /\ r.ID2 = ID1)
            /\ r.date <= date
    IN  SelectSeq(df, PairUpToDate)

\* lines 120-125 (276-281 of ml_fxns.py): the earlier bouts of the two
RelDf(df, ID1, ID2, date) ==
    LET PairAndEarlier(r) ==
            /\ (r.ID1 = ID1 /\ r.ID2 = ID2) \/ (r.ID1 = ID2 /\ r.ID2 = ID1)
            /\ r.date < date
    IN  SelectSeq(df, PairAndEarlier)

\* lines 136-166 with rank_diff left as it is when the order is switched
FeatureDictRankKept(order, outcome1, outcome2, d, ID1, ID2) ==
    IF order = 1
    THEN IF outcome1 = "shiro" /\ outcome2 = "kuro"
         THEN [height_diff |-> d.height_diff, weight_diff |-> d.weight_diff,
               age_diff |-> d.age_diff, active_diff |-> d.active_diff,
               rank_diff |-> d.rank_diff, h2h_diff |-> d.h2h_diff,
               ID1 |-> ID1, ID2 |-> ID2, label |-> 1]
         ELSE IF outcome1 = "kuro" /\ outcome2 = "shiro"
              THEN [height_diff |-> d.height_diff, weight_diff |-> d.weight_diff,
                    age_diff |-> d.age_diff, active_diff |-> d.active_diff,
                    rank_diff |-> d.rank_diff, h2h_diff |-> d.h2h_diff,
                    ID1 |-> ID1, ID2 |-> ID2, label |-> 0]
              ELSE <<>>
    ELSE IF outcome2 = "shiro" /\ outcome1 = "kuro"
         THEN [height_diff |-> 0 - d.height_diff, weight_diff |-> 0 - d.weight_diff,
               age_diff |-> FracNeg(d.age_diff), active_diff |-> FracNeg(d.active_diff),
               rank_diff |-> d.rank_diff, h2h_diff |-> FracNeg(d.h2h_diff),
               ID1 |-> ID2, ID2 |-> ID1, label |-> 1]
         ELSE IF outcome2 = "kuro" /\ outcome1 = "shiro"
              THEN [height_diff |-> 0 - d.height_diff, weight_diff |-> 0 - d.weight_diff,
                    age_diff |-> FracNeg(d.age_diff), active_diff |-> FracNeg(d.active_diff),
                    rank_diff |-> d.rank_diff, h2h_diff |-> FracNeg(d.h2h_diff),
                    ID1 |-> ID2, ID2 |-> ID1, label |-> 0]
              ELSE <<>>

\* lines 136-166 with the labels of order 1 written when the order is switched
FeatureDictLabelKept(order, outcome1, outcome2, d, ID1, ID2) ==
    IF order = 1
    THEN IF outcome1 = "shiro" /\ outcome2 = "kuro"
         THEN [height_diff |-> d.height_diff, weight_diff |-> d.weight_diff,
               age_diff |-> d.age_diff, active_diff |-> d.active_diff,
               rank_diff |-> d.rank_diff, h2h_diff |-> d.h2h_diff,
               ID1 |-> ID1, ID2 |-> ID2, label |-> 1]
         ELSE IF outcome1 = "kuro" /\ outcome2 = "shiro"
              THEN [height_diff |-> d.height_diff, weight_diff |-> d.weight_diff,
                    age_diff |-> d.age_diff, active_diff |-> d.active_diff,
                    rank_diff |-> d.rank_diff, h2h_diff |-> d.h2h_diff,
                    ID1 |-> ID1, ID2 |-> ID2, label |-> 0]
              ELSE <<>>
    ELSE IF outcome2 = "shiro" /\ outcome1 = "kuro"
         THEN [height_diff |-> 0 - d.height_diff, weight_diff |-> 0 - d.weight_diff,
               age_diff |-> FracNeg(d.age_diff), active_diff |-> FracNeg(d.active_diff),
               rank_diff |-> 0 - d.rank_diff, h2h_diff |-> FracNeg(d.h2h_diff),
               ID1 |-> ID2, ID2 |-> ID1, label |-> 0]
         ELSE IF outcome2 = "kuro" /\ outcome1 = "shiro"
              THEN [height_diff |-> 0 - d.height_diff, weight_diff |-> 0 - d.weight_diff,
                    age_diff |-> FracNeg(d.age_diff), active_diff |-> FracNeg(d.active_diff),
                    rank_diff |-> 0 - d.rank_diff, h2h_diff |-> FracNeg(d.h2h_diff),
                    ID1 |-> ID2, ID2 |-> ID1, label |-> 1]
              ELSE <<>>

\* lines 136-166: the feature row for one order, <<>> when no branch applies
FeatureDict(order, outcome1, outcome2, d, ID1, ID2) ==
    IF order = 1
    THEN IF outcome1 = "shiro" /\ outcome2 = "kuro"
         THEN [height_diff |-> d.height_diff, weight_diff |-> d.weight_diff,
               age_diff |-> d.age_diff, active_diff |-> d.active_diff,
               rank_diff |-> d.rank_diff, h2h_diff |-> d.h2h_diff,
               ID1 |-> ID1, ID2 |-> ID2, label |-> 1]
         ELSE IF outcome1 = "kuro" /\ outcome2 = "shiro"
              THEN [height_diff |-> d.height_diff, weight_diff |-> d.weight_diff,
                    age_diff |-> d.age_diff, active_diff |-> d.active_diff,
                    rank_diff |-> d.rank_diff, h2h_diff |-> d.h2h_diff,
                    ID1 |-> ID1, ID2 |-> ID2, label |-> 0]
              ELSE <<>>
    ELSE IF outcome2 = "shiro" /\ outcome1 = "kuro"
         THEN [height_diff |-> 0 - d.height_diff, weight_diff |-> 0 - d.weight_diff,
               age_diff |-> FracNeg(d.age_diff), active_diff |-> FracNeg(d.active_diff),
               rank_diff |-> 0 - d.rank_diff, h2h_diff |-> FracNeg(d.h2h_diff),
               ID1 |-> ID2, ID2 |-> ID1, label |-> 1]
         ELSE IF outcome2 = "kuro" /\ outcome1 = "shiro"
              THEN [height_diff |-> 0 - d.height_diff, weight_diff |-> 0 - d.weight_diff,
                    age_diff |-> FracNeg(d.age_diff), active_diff |-> FracNeg(d.active_diff),
                    rank_diff |-> 0 - d.rank_diff, h2h_diff |-> FracNeg(d.h2h_diff),
                    ID1 |-> ID2, ID2 |-> ID1, label |-> 0]
              ELSE <<>>

\* lines 99-128 (263-284 of ml_fxns.py): the six differences, first minus
\* second, and the call of calculate_h2h_wp they rest on
Differences(df, date, ID1, ID2, rank1, rank2) ==
    LET rikishi1 == RikishiRows(ID1)
        rikishi2 == RikishiRows(ID2)
        rel_df == RelDf(df, ID1, ID2, date)
        wp == calculate_h2h_wp(date, rel_df, ID1)
    IN  [height_diff |-> ItemOf(rikishi1, "height") - ItemOf(rikishi2, "height"),
         weight_diff |-> ItemOf(rikishi1, "weight") - ItemOf(rikishi2, "weight"),
         age_diff |-> FracSub(calculate_age(date, ItemOf(rikishi1, "bday")),
                              calculate_age(date, ItemOf(rikishi2, "bday"))),
         active_diff |-> FracSub(calculate_active_years(date, ItemOf(rikishi1, "debut")),
                                 calculate_active_years(date, ItemOf(rikishi2, "debut"))),
         rank_diff |-> map_rank(rank1).value - map_rank(rank2).value,
         h2h_diff |-> FracSub(wp[1], wp[2]),
         rel_df |-> rel_df, h2h_wp1 |-> wp[1], h2h_wp2 |-> wp[2]]

H2HCall(caller, date, ID1, d) ==
    [caller |-> caller, current_date |-> date, ID1 |-> ID1, rel_df |-> d.rel_df,
     h2h_wp1 |-> d.h2h_wp1, h2h_wp2 |-> d.h2h_wp2, h2h_diff |-> d.h2h_diff]

InitFeat ==
    /\ IdleMatch
    /\ IdleText
    /\ IdleDW
    /\ IdleBatch
    /\ h2h_pkl \in PickledTables
    /\ f_pc = "loaded"
    /\ h2h_df = <<>>
    /\ f_pos = 0
    /\ counter = 0
    /\ compiled_dicts = <<>>
    /\ h2h_call = NA

\* feature_generation.py lines 45-68: filter, sort, set up the loop
FG_Preprocess ==
    /\ f_pc = "loaded"
    /\ h2h_df' \in SortedByDate(SelectSeq(SelectSeq(h2h_pkl, RanksPresent), BinaryOutcomes))
    /\ f_pos' = 1
    /\ counter' = 1
    /\ compiled_dicts' = <<>>
    /\ f_pc' = "loop"
    /\ UNCHANGED <<h2h_pkl, h2h_call>>
    /\ UNCHANGED <<vars_match, vars_dw, vars_text, vars_batch>>

\* feature_generation.py lines 71-174: one pass of the loop
FG_Row ==
    /\ f_pc = "loop"
    /\ f_pos <= Len(h2h_df)
    /\ \E order \in {1, 2} :
         LET row == h2h_df[f_pos]
             checkpoint1 == 0
             checkpoint2 == Len(h2h_df)
             known == /\ row.label >= checkpoint1 /\ row.label <= checkpoint2
                      /\ RikishiRows(row.ID1) # {} /\ RikishiRows(row.ID2) # {}
             d == Differences(h2h_df, row.date, row.ID1, row.ID2, row.rank1, row.rank2)
             feature_dict == FeatureDict(order, row.outcome1, row.outcome2, d,
                                         row.ID1, row.ID2)
         IN  /\ h2h_call' = IF known
                            THEN H2HCall("feature_generation", row.date, row.ID1, d)
                            ELSE h2h_call
             /\ compiled_dicts' = IF known /\ feature_dict # <<>>
                                  THEN Append(compiled_dicts, feature_dict)
                                  ELSE compiled_dicts
    /\ counter' = counter + 1
    /\ f_pos' = f_pos + 1
    /\ UNCHANGED <<h2h_pkl, f_pc, h2h_df>>
    /\ UNCHANGED <<vars_match, vars_dw, vars_text, vars_batch>>

\* feature_generation.py lines 177-180: the rows become feature_df
FG_Store ==
    /\ f_pc = "loop"
    /\ f_pos > Len(h2h_df)
    /\ f_pc' = "done"
    /\ UNCHANGED <<h2h_pkl, h2h_df, f_pos, counter, compiled_dicts, h2h_call>>
    /\ UNCHANGED <<vars_match, vars_dw, vars_text, vars_batch>>

\* ml_fxns.py lines 221-326: predict_outcome for the two competitors of the
\* reference table, in either order, on the table as pickled
PredictOutcome ==
    /\ f_pc = "loaded"
    /\ \E i1, i2 \in DOMAIN feature_table :
         /\ i1 # i2
         /\ LET ID1 == RikishiID(i1)
                ID2 == RikishiID(i2)
                d == Differences(h2h_pkl, Today, ID1, ID2,
                                 Rank(Tier.Maegashira, <<"1">>), Rank(Tier.Maegashira, <<"3">>))
            IN  h2h_call' = H2HCall("predict_outcome", Today, ID1, d)
    /\ f_pc' = "predicted"
    /\ UNCHANGED <<h2h_pkl, h2h_df, f_pos, counter, compiled_dicts>>
    /\ UNCHANGED <<vars_match, vars_dw, vars_text, vars_batch>>

NextFeat ==
    \/ FG_Preprocess
    \/ FG_Row
    \/ FG_Store
    \/ PredictOutcome

SpecFeat == InitFeat /\ [][NextFeat]_vars

----------------------------------------------------------------------------
(* Properties of calculate_h2h_wp and of its two callers *)

Called == h2h_call # NA

WinLoss(r) ==
    \/ r.outcome1 = "shiro" /\ r.outcome2 = "kuro"
    \/ r.outcome1 = "kuro" /\ r.outcome2 = "shiro"

\* C6: for every non-empty history passed to calculate_h2h_wp, the win rate
\* of the subject plus the win rate of the opponent equals 1 (both rates are
\* fractions over the same sum of weights, so the numerators add up to it).
C6_WinRatesSumToOne ==
    (Called /\ h2h_call.rel_df # <<>>)
        => /\ h2h_call.h2h_wp1.den = h2h_call.h2h_wp2.den
           /\ h2h_call.h2h_wp1.num + h2h_call.h2h_wp2.num = h2h_call.h2h_wp1.den

\* C7: at every call of calculate_h2h_wp, from feature assembly and from
\* predict_outcome alike, every row of the history passed in has one side a
\* win and the other a loss.
C7_EveryHistoryRowIsWinLoss ==
    Called => \A k \in DOMAIN h2h_call.rel_df : WinLoss(h2h_call.rel_df[k])

\* C8: when the two competitors have no shared history, calculate_h2h_wp
\* returns 0.5 for both, and the win-rate difference that goes into the
\* feature row is exactly 0, in whichever order the row is written.
C8_NoHistoryGivesEvenRatesAndZeroDifference ==
    /\ [](Called /\ h2h_call.rel_df = <<>>
            => /\ h2h_call.h2h_wp1 = Frac(1, 2)
               /\ h2h_call.h2h_wp2 = Frac(1, 2)
               /\ h2h_call.h2h_diff.num = 0)
    /\ [][(FG_Row /\ compiled_dicts' # compiled_dicts /\ h2h_call'.rel_df = <<>>)
            => compiled_dicts'[Len(compiled_dicts')].h2h_diff.num = 0]_vars

C8_Witness ==
    /\ Called
    /\ h2h_call.caller = "feature_generation"
    /\ h2h_call.rel_df = <<>>
    /\ f_pos = 2
    /\ Len(compiled_dicts) = 1
    /\ compiled_dicts[1].h2h_diff.num = 0

\* the row as the other competitor's page stores it
MirrorRow(r) ==
    [r EXCEPT !.ID1 = r.ID2, !.ID2 = r.ID1,
              !.outcome1 = r.outcome2, !.outcome2 = r.outcome1]

\* the competitor of the history who is not the subject of the call
Opponent(rel_df, ID1) ==
    IF rel_df[1].ID1 = ID1 THEN rel_df[1].ID2 ELSE rel_df[1].ID1

\* C11: the result of calculate_h2h_wp does not depend on storage
\* orientation: with any one row of the history replaced by its mirror image
\* both win rates are unchanged, and the same history queried with the other
\* competitor as subject gives the same two win rates exchanged.
C11_OrientationDoesNotMatter ==
    (Called /\ h2h_call.rel_df # <<>>)
        => LET c == h2h_call
               wp == <<c.h2h_wp1, c.h2h_wp2>>
           IN  /\ \A k \in DOMAIN c.rel_df :
                     calculate_h2h_wp(c.current_date,
                                      [c.rel_df EXCEPT ![k] = MirrorRow(c.rel_df[k])],
                                      c.ID1) = wp
               /\ calculate_h2h_wp(c.current_date, c.rel_df, Opponent(c.rel_df, c.ID1))
                     = <<wp[2], wp[1]>>

C11_Witness ==
    /\ Called
    /\ Len(h2h_call.rel_df) = 2
    /\ h2h_call.rel_df[1].ID1 # h2h_call.rel_df[2].ID1
    /\ WinLoss(h2h_call.rel_df[1])
    /\ WinLoss(h2h_call.rel_df[2])
    /\ h2h_call.h2h_wp1.num > h2h_call.h2h_wp2.num
    /\ h2h_call.h2h_wp2.num > 0

----------------------------------------------------------------------------
(* Characters, regular-expression classes and datetime, as data_extraction  *)
(* uses them.  A datetime is its year, month and day.                       *)

Lower == {"a", "b", "c", "d", "e", "f", "g", "h", "i", "j", "k", "l", "m",
          "n", "o", "p", "q", "r", "s", "t", "u", "v", "w", "x", "y", "z"}

Letters ==
    Lower \cup {"A", "B", "C", "D", "E", "F", "G", "H", "I", "J", "K", "L", "M",
                "N", "O", "P", "Q", "R", "S", "T", "U", "V", "W", "X", "Y", "Z"}

\* \w
WordChars == Letters \cup Digits \cup {"_"}

\* [a-zA-z]: the range A-z also holds the characters between Z and a (of
\* which the backslash and the grave accent are in no input of the model)
RankNameChars == Letters \cup {"[", "]", "^", "_"}

\* the length of the longest run of characters of class that starts t
RunLength(t, class) ==
    LET stops == {k \in DOMAIN t : t[k] \notin class}
    IN  IF stops = {} THEN Len(t)
        ELSE (CHOOSE k \in stops : \A j \in stops : k <= j) - 1

Drop(t, n) == SubSeq(t, n + 1, Len(t))

Take(t, n) == SubSeq(t, 1, n)

StartsWith(t, prefix) == Len(t) >= Len(prefix) /\ Take(t, Len(prefix)) = prefix

\* one item of a regular expression: the text lead followed by min characters
\* of class, or by min or more of them where many holds; the item may also
\* match nothing where optional holds
Atom(lead, class, min, many, optional) ==
    [lead |-> lead, class |-> class, min |-> min, many |-> many,
     optional |-> optional]

\* the lengths of text that item can take up in t after position pos
Spans(t, pos, item) ==
    {n \in 0..(Len(t) - pos) :
        \/ item.optional /\ n = 0
        \/ /\ n >= Len(item.lead) + item.min
           /\ item.many \/ n = Len(item.lead) + item.min
           /\ SubSeq(t, pos + 1, pos + Len(item.lead)) = item.lead
           /\ \A i \in (pos + Len(item.lead) + 1)..(pos + n) : t[i] \in item.class}

\* every way for the items k, k + 1, ... of pattern to take up t from position
\* pos to its end, as the lengths the items take up
RECURSIVE Matches(_, _, _, _, _)
Matches(t, pattern, k, pos, lens) ==
    IF k > Len(pattern)
    THEN (IF pos = Len(t) THEN {lens} ELSE {})
    ELSE UNION {Matches(t, pattern, k + 1, next[1], next[2]) :
                  next \in {<<pos + n, Append(lens, n)>> :
                              n \in Spans(t, pos, pattern[k])}}

\* a greedy search tries v before w: the first item on which they differ takes
\* up more in v
Precedes(v, w) ==
    \E i \in DOMAIN v : v[i] > w[i] /\ \A j \in 1..(i - 1) : v[j] = w[j]

\* the text each item took up, NA for an item that took up nothing
Pieces(t, lens) ==
    [k \in DOMAIN lens |->
        IF lens[k] = 0 THEN NA
        ELSE Some(SubSeq(t, SumSeq(SubSeq(lens, 1, k - 1)) + 1,
                            SumSeq(SubSeq(lens, 1, k))))]

\* re.compile(pattern).match(t) for a pattern that ends with $: Some(pieces)
\* of the match the search finds first, or NA
RegexMatch(t, pattern) ==
    LET first == {v \in Matches(t, pattern, 1, 0, <<>>) :
                    \A w \in Matches(t, pattern, 1, 0, <<>>) : v = w \/ Precedes(v, w)}
    IN  IF first = {} THEN NA
        ELSE Some(CHOOSE pieces \in {Pieces(t, lens) : lens \in first} : TRUE)

MonthNames ==
    <<<<"J", "a", "n", "u", "a", "r", "y">>,
      <<"F", "e", "b", "r", "u", "a", "r", "y">>,
      <<"M", "a", "r", "c", "h">>,
      <<"A", "p", "r", "i", "l">>,
      <<"M", "a", "y">>,
      <<"J", "u", "n", "e">>,
      <<"J", "u", "l", "y">>,
      <<"A", "u", "g", "u", "s", "t">>,
      <<"S", "e", "p", "t", "e", "m", "b", "e", "r">>,
      <<"O", "c", "t", "o", "b", "e", "r">>,
      <<"N", "o", "v", "e", "m", "b", "e", "r">>,
      <<"D", "e", "c", "e", "m", "b", "e", "r">>>>

Date(y, m, d) == [year |-> y, month |-> m, day |-> d]

DaysInMonth(y, m) ==
    IF m = 2 THEN (IF y % 4 = 0 /\ (y % 100 # 0 \/ y % 400 = 0) THEN 29 ELSE 28)
    ELSE IF m \in {4, 6, 9, 11} THEN 30 ELSE 31

RECURSIVE DaysBeforeMonth(_, _)
DaysBeforeMonth(y, m) ==
    IF m = 1 THEN 0 ELSE DaysBeforeMonth(y, m - 1) + DaysInMonth(y, m - 1)

\* date.toordinal()
Ordinal(date) ==
    LET y == date.year - 1
    IN  y * 365 + (y \div 4) - (y \div 100) + (y \div 400)
          + DaysBeforeMonth(date.year, date.month) + date.day

\* (a - b).days
DaysBetween(a, b) == Ordinal(a) - Ordinal(b)

\* the lengths of text that one item of a strptime format can take up at the
\* start of t: %Y is \d\d\d\d, %m is 1[0-2]|0[1-9]|[1-9], %d is
\* 3[01]|[12]\d|0[1-9]|[1-9]| [1-9], %B is a month name, a blank is \s+, and
\* any other character is itself
ItemLengths(t, item) ==
    CASE item = "%Y" -> {n \in {4} : Len(t) >= 4 /\ IsDigits(Take(t, 4))}
      [] item = "%m" -> {n \in {1, 2} : /\ Len(t) >= n
                                        /\ IsDigits(Take(t, n))
                                        /\ DigitsValue(Take(t, n)) \in 1..12
                                        /\ n = 1 => t[1] # "0"}
      [] item = "%d" -> {n \in {1, 2} : /\ Len(t) >= n
                                        /\ \/ /\ IsDigits(Take(t, n))
                                              /\ DigitsValue(Take(t, n)) \in 1..31
                                              /\ n = 1 => t[1] # "0"
                                           \/ /\ n = 2
                                              /\ t[1] = " "
                                              /\ t[2] \in Digits \ {"0"}}
      [] item = "%B" -> {Len(MonthNames[k]) : k \in {j \in DOMAIN MonthNames :
                                                       StartsWith(t, MonthNames[j])}}
      [] item = " " -> 1..RunLength(t, Whitespace)
      [] OTHER -> {n \in {1} : Len(t) >= 1 /\ t[1] = item}

\* the date so far with what one item of the format read
WithItem(date, item, piece) ==
    CASE item = "%Y" -> [date EXCEPT !.year = DigitsValue(piece)]
      [] item = "%m" -> [date EXCEPT !.month = DigitsValue(piece)]
      [] item = "%d" -> [date EXCEPT !.day = DigitsValue(Strip(piece))]
      [] item = "%B" -> [date EXCEPT !.month =
                            CHOOSE k \in DOMAIN MonthNames : MonthNames[k] = piece]
      [] OTHER -> date

\* every way of reading the whole of t by the items k, k + 1, ... of fmt
RECURSIVE Readings(_, _, _, _)
Readings(t, fmt, k, date) ==
    IF k > Len(fmt)
    THEN (IF t = <<>> THEN {date} ELSE {})
    ELSE UNION {Readings(Drop(t, n), fmt, k + 1, WithItem(date, fmt[k], Take(t, n))) :
                  n \in ItemLengths(t, fmt[k])}

\* datetime.strptime(t, fmt): Some(date), or NA where it raises ValueError
\* (no reading, or a reading that is no date of the calendar)
Strptime(t, fmt) ==
    LET found == {date \in Readings(t, fmt, 1, Date(1900, 1, 1)) :
                    /\ date.year >= 1
                    /\ date.day <= DaysInMonth(date.year, date.month)}
    IN  IF found = {} THEN NA ELSE Some(CHOOSE date \in found : TRUE)

----------------------------------------------------------------------------
(* data_extraction.py: the parsers of one field *)

\* t.strip(chars)
StripChars(t, chars) ==
    LET inner == {k \in DOMAIN t : t[k] \notin chars}
    IN  IF inner = {} THEN <<>>
        ELSE SubSeq(t, CHOOSE k \in inner : \A j \in inner : k <= j,
                       CHOOSE k \in inner : \A j \in inner : j <= k)

\* lines 17-28
extract_rank(rank) == Returned(Split(rank, <<" ", "(">>)[1])

\* lines 138-152
extract_birthplace(shusshin) ==
    IF shusshin # <<>> /\ shusshin # <<"-">>
    THEN Returned(Some(shusshin))
    ELSE Returned(NA)

\* lines 190-202
extract_stable(heya) ==
    IF heya # <<>> /\ heya # <<"-">>
    THEN Returned(Some(heya))
    ELSE Returned(NA)

\* lines 378-388
extract_date(date_raw) ==
    LET date == Strptime(Strip(date_raw), <<"%Y", ".", "%m">>)
    IN  IF date = NA THEN Raised("ValueError") ELSE Returned(Get(date))

\* lines 393-403
extract_tourney_day(day_raw) ==
    LET tourney_day == IntOf(StripChars(Strip(day_raw), {"D", "a", "y", " "}))
    IN  IF tourney_day = NA THEN Raised("ValueError") ELSE Returned(Get(tourney_day))

abbrev_list == <<<<"Y">>, <<"O">>, <<"S">>, <<"K">>, <<"M">>, <<"J">>, <<"M", "s">>, <<"S", "d">>, <<"J", "d">>, <<"J", "k">>>>

\* the codes in the place of the full names
full_list_codes == abbrev_list

full_list == <<Tier.Yokozuna, Tier.Ozeki, Tier.Sekiwake, Tier.Komusubi, Tier.Maegashira,
               Tier.Juryo, Tier.Makushita, Tier.Sandanme, Tier.Jonidan, Tier.Jonokuchi>>

\* reg_exp.match of lines 437-438, '^([a-zA-z]+)(\d+)(?:[a-zA-Z]+)$': the two
\* groups, or NA
RankMatch(rank_string) ==
    LET rank_results ==
            RegexMatch(rank_string, <<Atom(<<>>, RankNameChars, 1, TRUE, FALSE),
                                      Atom(<<>>, Digits, 1, TRUE, FALSE),
                                      Atom(<<>>, Letters, 1, TRUE, FALSE)>>)
    IN  IF rank_results = NA THEN NA
        ELSE Some(<<Get(Get(rank_results)[1]), Get(Get(rank_results)[2])>>)

\* lines 408-455
extract_h2h_rank(rank_raw) ==
    LET rank_string == Split(Strip(rank_raw), <<" ">>)[1]
        rank_results == RankMatch(rank_string)
    IN  IF rank_results = NA THEN Returned(NA)
        ELSE LET rank_name == Get(rank_results)[1]
                 rank_num == Get(rank_results)[2]
                 found == {k \in DOMAIN abbrev_list : abbrev_list[k] = rank_name}
             IN  IF found = {} THEN Raised("ValueError")
                 ELSE Returned(Some(full_list[CHOOSE k \in found : TRUE]
                                      \o <<" ">> \o rank_num))

outcome_list ==
    <<<<"s", "h", "i", "r", "o">>,
      <<"k", "u", "r", "o">>,
      <<"f", "u", "s", "e", "n", "s", "h", "o">>,
      <<"f", "u", "s", "e", "n", "p", "a", "i">>,
      <<"h", "i", "k", "i", "w", "a", "k", "e">>>>

\* reg_exp.match of lines 482-483, '^(?:img/hoshi_)([a-z]+)(?:.gif)$': the
\* group, or NA; the dot before gif stands for any one character
OutcomeMatch(t) ==
    LET outcome_result ==
            RegexMatch(t, <<Atom(<<"i", "m", "g", "/", "h", "o", "s", "h", "i", "_">>, {}, 0, FALSE, FALSE),
                            Atom(<<>>, Lower, 1, TRUE, FALSE),
                            Atom(<<>>, STRING, 1, FALSE, FALSE),
                            Atom(<<"g", "i", "f">>, {}, 0, FALSE, FALSE)>>)
    IN  IF outcome_result = NA THEN NA ELSE Get(outcome_result)[2]

\* lines 460-493 with a code outside outcome_list returned as it is
extract_outcome_unlisted(outcome_raw) ==
    LET outcome_result == OutcomeMatch(Strip(outcome_raw))
    IN  IF outcome_result = NA THEN Raised("AttributeError")
        ELSE Returned(Get(outcome_result))

\* lines 460-493
extract_outcome(outcome_raw) ==
    LET outcome_result == OutcomeMatch(Strip(outcome_raw))
    IN  IF outcome_result = NA THEN Raised("AttributeError")
        ELSE IF \A k \in DOMAIN outcome_list : outcome_list[k] # Get(outcome_result)
             THEN Raised("Exception")
             ELSE Returned(Get(outcome_result))

\* lines 498-543
extract_kimarite(kimarite_raw) ==
    IF Strip(kimarite_raw) = <<>>
    THEN Returned(NA)
    ELSE Returned(Some(Strip(kimarite_raw)))

\* datetime.now() of lines 123 and 130: the day the parser runs
Now == Date(2017, 6, 1)

\* float(tdelta.days)/365.25
YearsOf(days) == Frac(4 * days, QuarterDays)

\* line 62 without its second alternative: the literal unknown matches nothing
YearsMatchDatedOnly(t) ==
    LET dated == RegexMatch(t, <<Atom(<<>>, Digits \cup {"."}, 1, TRUE, FALSE),
                                 Atom(<<>>, Whitespace, 1, FALSE, TRUE),
                                 Atom(<<"(">>, {}, 0, FALSE, TRUE),
                                 Atom(<<>>, WordChars, 1, TRUE, TRUE),
                                 Atom(<<")">>, {}, 0, FALSE, TRUE)>>)
    IN  IF dated # NA THEN Some(<<Get(dated)[1], Get(dated)[4], NA>>) ELSE NA

\* reg_exp.match of line 62,
\* '^([0-9.]+)(?:\s)?(?:\()?(\w+)?(?:\))?$|^(unknown)$': the three groups,
\* each NA or Some(text), or NA where nothing matches
YearsMatch(t) ==
    LET dated == RegexMatch(t, <<Atom(<<>>, Digits \cup {"."}, 1, TRUE, FALSE),
                                 Atom(<<>>, Whitespace, 1, FALSE, TRUE),
                                 Atom(<<"(">>, {}, 0, FALSE, TRUE),
                                 Atom(<<>>, WordChars, 1, TRUE, TRUE),
                                 Atom(<<")">>, {}, 0, FALSE, TRUE)>>)
    IN  IF dated # NA THEN Some(<<Get(dated)[1], Get(dated)[4], NA>>)
        ELSE IF t = <<"u", "n", "k", "n", "o", "w", "n">> THEN Some(<<NA, NA, Some(t)>>)
        ELSE NA

\* one turn of the loops of lines 68-76 and 352-360
TryBirthday(bday, t, format) ==
    LET read == Strptime(t, format)
    IN  IF read = NA THEN bday
        ELSE IF Get(read).year < 1700 THEN NA
        ELSE read

\* one turn of the loop of lines 362-366
TryDebut(debut, t, format) ==
    LET read == Strptime(t, format)
    IN  IF read = NA THEN debut ELSE read

\* lines 33-133
extract_years(birth_date, hatsu_dohyo, intai) ==
    LET clean_date == Split(birth_date, <<" ", "(">>)[1]
        bday == TryBirthday(TryBirthday(TryBirthday(NA,
                    clean_date, <<"%B", " ", "%d", ",", " ", "%Y">>),
                    clean_date, <<"%B", " ", "%Y">>),
                    clean_date, <<"%Y">>)
        debut_result == YearsMatch(hatsu_dohyo)
        debut_read == debut_result # NA /\ Get(debut_result)[3] = NA
        debut == IF debut_read
                 THEN Strptime(Get(Get(debut_result)[1]), <<"%Y", ".", "%m">>)
                 ELSE NA
        entry_rank == IF debut # NA THEN Get(debut_result)[2] ELSE NA
        retirement_result == YearsMatch(intai)
        retirement_known == ~(retirement_result # NA /\ Get(retirement_result)[3] # NA)
        retirement == IF retirement_result # NA /\ Get(retirement_result)[3] = NA
                      THEN Strptime(Get(Get(retirement_result)[1]), <<"%Y", ".", "%m">>)
                      ELSE NA
        age == IF retirement # NA
               THEN (IF bday # NA
                     THEN Some(YearsOf(DaysBetween(Get(retirement), Get(bday))))
                     ELSE NA)
               ELSE (IF bday # NA /\ retirement_known
                     THEN Some(YearsOf(DaysBetween(Now, Get(bday))))
                     ELSE NA)
        active_years == IF retirement # NA
                        THEN (IF debut # NA
                              THEN Some(YearsOf(DaysBetween(Get(retirement), Get(debut))))
                              ELSE NA)
                        ELSE (IF debut # NA /\ retirement_known
                              THEN Some(YearsOf(DaysBetween(Now, Get(debut))))
                              ELSE NA)
    IN  Returned([bday |-> bday, age |-> age, active_years |-> active_years,
                  debut |-> debut, entry_rank |-> entry_rank,
                  retirement |-> retirement])

\* lines 319-373
extract_bout_title_tags(rikishi_title) ==
    LET parse_list == Split(rikishi_title, <<",", " ">>)
    IN  IF Len(parse_list) = 8
        THEN LET heya == parse_list[2]
                 birth_date == parse_list[4]
                 hatsu_dohyo == parse_list[5]
             IN  Returned([sumo_stable |-> extract_stable(heya).value,
                           bday |-> TryBirthday(TryBirthday(TryBirthday(NA,
                                        birth_date, <<"%d", ".", "%m", ".", "%Y">>),
                                        birth_date, <<"%m", ".", "%Y">>),
                                        birth_date, <<"%Y">>),
                           debut |-> TryDebut(TryDebut(NA,
                                        hatsu_dohyo, <<"%Y", ".", "%m">>),
                                        hatsu_dohyo, <<"%Y">>)])
        ELSE Returned([sumo_stable |-> NA, bday |-> NA, debut |-> NA])

RECURSIVE Pow10(_)
Pow10(k) == IF k = 0 THEN 1 ELSE 10 * Pow10(k - 1)

\* float(t) for a text of digits and dots: Some(fraction), or NA where float
\* raises ValueError (more than one dot, or no digit)
FloatOf(t) ==
    LET dots == {k \in DOMAIN t : t[k] = "."}
        figures == SelectSeq(t, LAMBDA c : c # ".")
    IN  IF Cardinality(dots) > 1 \/ figures = <<>> THEN NA
        ELSE IF dots = {} THEN Some(Frac(DigitsValue(figures), 1))
        ELSE Some(Frac(DigitsValue(figures),
                       Pow10(Len(t) - (CHOOSE k \in dots : TRUE))))

\* reg_exp.match of lines 169-170, '^([0-9.]+)\scm\s([0-9.]+)\skg$': the two
\* groups, or NA
BodyMatch(t) ==
    LET result == RegexMatch(t, <<Atom(<<>>, Digits \cup {"."}, 1, TRUE, FALSE),
                                  Atom(<<>>, Whitespace, 1, FALSE, FALSE),
                                  Atom(<<"c", "m">>, Whitespace, 1, FALSE, FALSE),
                                  Atom(<<>>, Digits \cup {"."}, 1, TRUE, FALSE),
                                  Atom(<<>>, Whitespace, 1, FALSE, FALSE),
                                  Atom(<<"k", "g">>, {}, 0, FALSE, FALSE)>>)
    IN  IF result = NA THEN NA
        ELSE Some(<<Get(Get(result)[1]), Get(Get(result)[4])>>)

\* lines 157-185
extract_body_specs(ht_wt) ==
    LET result == BodyMatch(ht_wt)
    IN  IF result = NA THEN Returned([height |-> NA, weight |-> NA])
        ELSE IF FloatOf(Get(result)[1]) = NA \/ FloatOf(Get(result)[2]) = NA
        THEN Raised("ValueError")
        ELSE Returned([height |-> FloatOf(Get(result)[1]),
                       weight |-> FloatOf(Get(result)[2])])

\* reg_exp.match of lines 251-252,
\* '^(\d+)-(\d+)(?:-)?(\d+)?(-[a-zA-Z0-9-]+)?/(\d+)\s\((\d+)\sbasho\)(?:,\s)?(.+)?$':
\* the seven groups, each NA or Some(text), or NA where nothing matches
RecordMatch(t) ==
    LET result == RegexMatch(t, <<Atom(<<>>, Digits, 1, TRUE, FALSE),
                                  Atom(<<"-">>, Digits, 1, TRUE, FALSE),
                                  Atom(<<"-">>, {}, 0, FALSE, TRUE),
                                  Atom(<<>>, Digits, 1, TRUE, TRUE),
                                  Atom(<<"-">>, Letters \cup Digits \cup {"-"}, 1, TRUE, TRUE),
                                  Atom(<<"/">>, Digits, 1, TRUE, FALSE),
                                  Atom(<<>>, Whitespace, 1, FALSE, FALSE),
                                  Atom(<<"(">>, Digits, 1, TRUE, FALSE),
                                  Atom(<<>>, Whitespace, 1, FALSE, FALSE),
                                  Atom(<<"b", "a", "s", "h", "o", ")">>, {}, 0, FALSE, FALSE),
                                  Atom(<<",">>, Whitespace, 1, FALSE, TRUE),
                                  Atom(<<>>, STRING, 1, TRUE, TRUE)>>)
    IN  IF result = NA THEN NA
        ELSE Some(<<Get(result)[1], Some(Tail(Get(Get(result)[2]))),
                    Get(result)[4], Get(result)[5],
                    Some(Tail(Get(Get(result)[6]))), Some(Tail(Get(Get(result)[8]))),
                    Get(result)[12]>>)

\* int(re.findall('\d+', award)[0]): Some(number), or NA where the list is
\* empty and the index raises IndexError
FirstNumber(award) ==
    LET starts == {k \in DOMAIN award : award[k] \in Digits}
    IN  IF starts = {} THEN NA
        ELSE LET from == Drop(award, (CHOOSE k \in starts : \A j \in starts : k <= j) - 1)
             IN  Some(DigitsValue(Take(from, RunLength(from, Digits))))

\* the tests of lines 291-306 on one item of the list
AwardNamed(award) ==
    [yusho |-> IsSubstring(<<"Y", "u", "s", "h", "o">>, award) /\ ~IsSubstring(<<"J", "u", "n", "-", "Y", "u", "s", "h", "o">>, award),
     jun_yusho |-> IsSubstring(<<"J", "u", "n", "-", "Y", "u", "s", "h", "o">>, award),
     gino_sho |-> IsSubstring(<<"G", "i", "n", "o", "-", "S", "h", "o">>, award),
     shukun_sho |-> IsSubstring(<<"S", "h", "u", "k", "u", "n", "-", "S", "h", "o">>, award),
     kanto_sho |-> IsSubstring(<<"K", "a", "n", "t", "o", "-", "S", "h", "o">>, award),
     kinboshi |-> IsSubstring(<<"K", "i", "n", "b", "o", "s", "h", "i">>, award)]

\* lines 289-307: each award keeps the number of the last item that names it;
\* the first item that names an award and holds no number ends the call
Awards(parse_list) ==
    IF \E k \in DOMAIN parse_list :
          /\ \E key \in DOMAIN AwardNamed(parse_list[k]) : AwardNamed(parse_list[k])[key]
          /\ FirstNumber(parse_list[k]) = NA
    THEN Raised("IndexError")
    ELSE Returned([key \in DOMAIN AwardNamed(<<>>) |->
            LET named == {k \in DOMAIN parse_list : AwardNamed(parse_list[k])[key]}
            IN  IF named = {} THEN NA
                ELSE FirstNumber(parse_list[CHOOSE k \in named : \A j \in named : j <= k])])

\* int(stats[i]) of lines 259-282, None kept where the group is None
IntOrNone(group) == IF group = NA THEN NA ELSE IntOf(Get(group))

\* lines 207-314
extract_record(record) ==
    LET result == RecordMatch(record)
        stats == IF result = NA THEN <<NA, NA, NA, NA, NA, NA, NA>> ELSE Get(result)
        awards == IF stats[7] = NA THEN Awards(<<>>)
                  ELSE Awards(Split(Get(stats[7]), <<",", " ">>))
    IN  IF awards.exc # "none" THEN awards
        ELSE Returned([wins |-> IntOrNone(stats[1]),
                       losses |-> IntOrNone(stats[2]),
                       withdrawals |-> IntOrNone(stats[3]),
                       appearances |-> IntOrNone(stats[5]),
                       tourneys |-> IntOrNone(stats[6]),
                       yusho |-> awards.value.yusho,
                       jun_yusho |-> awards.value.jun_yusho,
                       gino_sho |-> awards.value.gino_sho,
                       shukun_sho |-> awards.value.shukun_sho,
                       kanto_sho |-> awards.value.kanto_sho,
                       kinboshi |-> awards.value.kinboshi])

----------------------------------------------------------------------------
(* Calls of the text functions, one call per behaviour *)

\* the largest number written in a rank label
MaxRankNumber == 12

DigitChar(k) ==
    CASE k = 0 -> "0" [] k = 1 -> "1" [] k = 2 -> "2" [] k = 3 -> "3"
      [] k = 4 -> "4" [] k = 5 -> "5" [] k = 6 -> "6" [] k = 7 -> "7"
      [] k = 8 -> "8" [] k = 9 -> "9"

\* the decimal numeral of n
RECURSIVE NumeralText(_)
NumeralText(n) ==
    IF n < 10 THEN <<DigitChar(n)>>
    ELSE NumeralText(n \div 10) \o <<DigitChar(n % 10)>>

NamedTiers == {Tier.Yokozuna, Tier.Ozeki, Tier.Sekiwake, Tier.Komusubi}

NumberedTiers == {title_list[k] : k \in DOMAIN title_list}

\* the labels given to map_rank: every tier name bare, with a small number and
\* with the largest number of its tier, and labels that carry no tier name or
\* no number
RankLabels ==
    NamedTiers \cup NumberedTiers
    \cup {Rank(t, NumeralText(n)) : t \in NamedTiers \cup NumberedTiers, n \in 1..MaxRankNumber}
    \cup {Rank(title_list[k], NumeralText(tier_sizes[k])) : k \in DOMAIN title_list}
    \cup {NoneText, <<>>, Rank(Tier.Maegashira, <<"x">>), Rank(<<"B", "g">>, <<"1">>)}

\* the texts given to each parser: well-formed fields as the site prints
\* them, empty fields and malformed ones
TextInputs ==
    [extract_rank |->
        {<<"Y", "o", "k", "o", "z", "u", "n", "a", " ", "(", "M", "a", "r", "c", "h", " ", "2", "0", "1", "7", ")">>,
         <<"S", "e", "k", "i", "w", "a", "k", "e">>,
         <<"M", "a", "e", "g", "a", "s", "h", "i", "r", "a", " ", "5">>,
         <<>>},
     place |->
        {<<>>,
         <<"-">>,
         <<"M", "o", "n", "g", "o", "l", "i", "a">>},
     extract_date |->
        {<<"2", "0", "0", "1", ".", "1", "1">>,
         <<" ", "2", "0", "0", "1", ".", "1", " ">>,
         <<"2", "0", "0", "1">>,
         <<>>,
         <<"2", "0", "0", "1", ".", "1", "3">>,
         <<"a", "b", "c">>,
         <<"1", "6", "5", "0", ".", "0", "3">>},
     extract_tourney_day |->
        {<<"D", "a", "y", " ", "4">>,
         <<" ", "D", "a", "y", " ", "1", "5", " ">>,
         <<"D", "a", "y">>,
         <<>>,
         <<"D", "a", "y", " ", "x">>,
         <<"4">>},
     extract_h2h_rank |->
        {abbrev_list[k] \o NumeralText(n) \o side :
            k \in DOMAIN abbrev_list, n \in {1, MaxRankNumber},
            side \in {<<"e">>, <<"w">>}}
        \cup {<<"M", "s", "4", "e", " ", "H", "a", "k", "u", "h", "o">>,
              <<"Y", "1", "e", "H", "D">>,
              <<"M", "s">>,
              <<"M", "z", "1", "e">>,
              <<"M", "9">>,
              <<>>,
              <<"X", "3", "w">>,
              <<" ", "J", "4", "w", " ">>},
     extract_outcome |->
        {<<"i", "m", "g", "/", "h", "o", "s", "h", "i", "_", "s", "h", "i", "r", "o", ".", "g", "i", "f">>,
         <<"i", "m", "g", "/", "h", "o", "s", "h", "i", "_", "k", "u", "r", "o", ".", "g", "i", "f">>,
         <<"i", "m", "g", "/", "h", "o", "s", "h", "i", "_", "f", "u", "s", "e", "n", "s", "h", "o", ".", "g", "i", "f">>,
         <<"i", "m", "g", "/", "h", "o", "s", "h", "i", "_", "f", "u", "s", "e", "n", "p", "a", "i", ".", "g", "i", "f">>,
         <<"i", "m", "g", "/", "h", "o", "s", "h", "i", "_", "h", "i", "k", "i", "w", "a", "k", "e", ".", "g", "i", "f">>,
         <<"i", "m", "g", "/", "h", "o", "s", "h", "i", "_", "a", "z", "u", "k", "a", "r", "i", ".", "g", "i", "f">>,
         <<"i", "m", "g", "/", "h", "o", "s", "h", "i", "_", "s", "h", "i", "r", "o", "x", "g", "i", "f">>,
         <<>>,
         <<"h", "o", "s", "h", "i", "_", "s", "h", "i", "r", "o", ".", "g", "i", "f">>,
         <<" ", "i", "m", "g", "/", "h", "o", "s", "h", "i", "_", "k", "u", "r", "o", ".", "g", "i", "f", " ">>,
         <<"i", "m", "g", "/", "h", "o", "s", "h", "i", "_", ".", "g", "i", "f">>,
         <<"i", "m", "g", "/", "h", "o", "s", "h", "i", "_", "S", "h", "i", "r", "o", ".", "g", "i", "f">>},
     extract_kimarite |->
        {<<"u", "w", "a", "t", "e", "n", "a", "g", "e">>,
         <<" ">>,
         <<>>,
         <<" ", "y", "o", "r", "i", "k", "i", "r", "i", " ">>},
     birth_date |->
        {<<"M", "a", "r", "c", "h", " ", "1", "1", ",", " ", "1", "9", "8", "5", " ", "(", "3", "2", " ", "y", "e", "a", "r", "s", ")">>,
         <<"M", "a", "r", "c", "h", " ", "1", "9", "8", "5">>,
         <<"1", "9", "8", "5">>,
         <<"1", "6", "5", "0">>,
         <<"F", "e", "b", "r", "u", "a", "r", "y", " ", "3", "0", ",", " ", "1", "9", "8", "5">>,
         <<>>},
     hatsu_dohyo |->
        {<<"2", "0", "0", "1", ".", "0", "3", " ", "(", "M", "s", "1", "5", ")">>,
         <<"2", "0", "0", "1", ".", "0", "3">>,
         <<"1", "6", "5", "0", ".", "0", "3">>,
         <<"u", "n", "k", "n", "o", "w", "n">>,
         <<>>,
         <<"2", "0", "0", "1", ".", "1", "3">>,
         <<"2", "0", "0", "1", ".", "0", "3", " ", "M", "s", "1", "5", ")">>},
     intai |->
        {<<"2", "0", "1", "0", ".", "0", "1">>,
         <<"u", "n", "k", "n", "o", "w", "n">>,
         <<>>,
         <<"1", "6", "5", "0", ".", "0", "1">>,
         <<"-">>},
     extract_bout_title_tags |->
        {<<"H", "a", "k", "u", "h", "o", ",", " ">> \o heya \o <<",", " ", "M", "o", "n", "g", "o", "l", "i", "a", ",", " ">>
           \o birth_date \o <<",", " ">> \o hatsu_dohyo
           \o <<",", " ", ",", " ", "1", "9", "2", " ", "c", "m", ",", " ", "1", "5", "5", " ", "k", "g">> :
            heya \in {<<"M", "i", "y", "a", "g", "i", "n", "o">>, <<"-">>},
            birth_date \in {<<"1", "1", ".", "0", "3", ".", "1", "9", "8", "5">>,
                           <<"0", "3", ".", "1", "9", "8", "5">>,
                           <<"1", "9", "8", "5">>,
                           <<"1", "6", "5", "0">>,
                           <<>>},
            hatsu_dohyo \in {<<"2", "0", "0", "1", ".", "0", "3">>,
                            <<"2", "0", "0", "1">>,
                            <<"1", "6", "5", "0", ".", "0", "3">>,
                            <<"1", "6", "5", "0">>,
                            <<>>}}
        \cup {<<"H", "a", "k", "u", "h", "o">>},
     extract_body_specs |->
        {<<"1", "9", "2", " ", "c", "m", " ", "1", "5", "5", " ", "k", "g">>,
         <<"1", "9", "2", " ", "c", "m", " ", "1", "5", "9", ".", "2", " ", "k", "g">>,
         <<"1", ".", "2", ".", "3", " ", "c", "m", " ", "5", " ", "k", "g">>,
         <<".", " ", "c", "m", " ", "5", " ", "k", "g">>,
         <<"1", "9", "2", " ", "c", "m", " ", ".", " ", "k", "g">>,
         <<>>,
         <<"1", "9", "2", "c", "m", " ", "1", "5", "5", "k", "g">>,
         <<"1", "9", "2", " ", "c", "m">>,
         <<".", "5", " ", "c", "m", " ", "7", ".", " ", "k", "g">>},
     extract_record |->
        {<<"1", "0", "-", "5", "/", "1", "5", " ", "(", "1", " ", "b", "a", "s", "h", "o", ")">>,
         <<"1", "0", "-", "5", "-", "2", "/", "1", "7", " ", "(", "2", " ", "b", "a", "s", "h", "o", ")", ",", " ", "1", " ", "Y", "u", "s", "h", "o", ",", " ", "2", " ", "K", "i", "n", "b", "o", "s", "h", "i">>,
         <<"1", "0", "-", "5", "-", "1", "-", "x", "/", "1", "5", " ", "(", "1", " ", "b", "a", "s", "h", "o", ")", ",", " ", "3", " ", "J", "u", "n", "-", "Y", "u", "s", "h", "o">>,
         <<"1", "0", "-", "5", "-", "a", "b", "/", "1", "5", " ", "(", "1", " ", "b", "a", "s", "h", "o", ")", ",", " ", "1", " ", "G", "i", "n", "o", "-", "S", "h", "o", ",", " ", "2", " ", "S", "h", "u", "k", "u", "n", "-", "S", "h", "o", ",", " ", "4", " ", "K", "a", "n", "t", "o", "-", "S", "h", "o">>,
         <<"1", "0", "-", "5", "/", "1", "5", " ", "(", "1", " ", "b", "a", "s", "h", "o", ")", ",", " ", "Y", "u", "s", "h", "o">>,
         <<>>,
         <<"1", "0", "-", "5">>,
         <<"1", "0", "-", "5", "/", "1", "5", " ", "(", "1", " ", "b", "a", "s", "h", "o", ")", ",", " ">>,
         <<"1", "0", "-", "5", "x", "/", "1", "5", " ", "(", "1", " ", "b", "a", "s", "h", "o", ")">>,
         <<"1", "0", "-", "5", "/", "1", "5", " ", "(", "1", " ", "b", "a", "s", "h", "o", ")", ",", " ", "n", "o", " ", "a", "w", "a", "r", "d", "s">>,
         <<"1", "0", "-", "5", "-", "/", "1", "5", " ", "(", "1", " ", "b", "a", "s", "h", "o", ")", " ", "7", " ", "K", "i", "n", "b", "o", "s", "h", "i">>,
         <<"1", "0", "-", "5", "-", "2", "x", "/", "1", "5", " ", "(", "1", " ", "b", "a", "s", "h", "o", ")", ",", " ", "1", " ", "Y", "u", "s", "h", "o", ",", " ", "1", "2", " ", "Y", "u", "s", "h", "o">>,
         <<"1", "0", "-", "5", "-", "-", "2", "/", "1", "5", " ", "(", "1", " ", "b", "a", "s", "h", "o", ")", ",", " ", "2", " ", "Y", "u", "s", "h", "o", " ", "3", " ", "J", "u", "n", "-", "Y", "u", "s", "h", "o">>,
         <<"0", "-", "0", "-", "7", "/", "7", " ", "(", "1", " ", "b", "a", "s", "h", "o", ")", ",", " ", "1", " ", "K", "a", "n", "t", "o", "-", "S", "h", "o", ",", " ", "K", "i", "n", "b", "o", "s", "h", "i">>,
         <<"1", "0", "-", "5", "/", "1", "5", " ", "(", "1", " ", "b", "a", "s", "h", "o", ")", ",", " ", "1", " ", "G", "i", "n", "o", "-", "S", "h", "o", " ", "2", " ", "K", "a", "n", "t", "o", "-", "S", "h", "o">>,
         <<"1", "0", "-", "1", "-", "5", "/", "1", "6", " ", "(", "2", " ", "b", "a", "s", "h", "o", ")">>}]

TextCalls ==
    {<<"map_rank", <<label>>>> : label \in RankLabels}
    \cup {<<fn, <<t>>>> :
             fn \in {"extract_birthplace", "extract_stable"}, t \in TextInputs.place}
    \cup {<<"extract_years", <<b, h, i>>>> :
             b \in TextInputs.birth_date, h \in TextInputs.hatsu_dohyo,
             i \in TextInputs.intai}
    \cup UNION {{<<fn, <<t>>>> : t \in TextInputs[fn]} :
                  fn \in {"extract_rank", "extract_date", "extract_tourney_day",
                          "extract_h2h_rank", "extract_outcome", "extract_kimarite",
                          "extract_bout_title_tags", "extract_body_specs",
                          "extract_record"}}

InitText ==
    /\ IdleMatch
    /\ IdleDW
    /\ IdleFeat
    /\ IdleBatch
    /\ \E call \in TextCalls :
         /\ t_fn = call[1]
         /\ t_args = call[2]
    /\ t_ret = NA

\* the part of a call that every function shares
Call(fn, ret) ==
    /\ t_fn = fn
    /\ t_ret = NA
    /\ t_ret' = ret
    /\ UNCHANGED <<t_fn, t_args>>
    /\ UNCHANGED <<vars_match, vars_dw, vars_feat, vars_batch>>

Call_map_rank == Call("map_rank", map_rank(t_args[1]))

Call_extract_rank == Call("extract_rank", extract_rank(t_args[1]))

Call_extract_birthplace == Call("extract_birthplace", extract_birthplace(t_args[1]))

Call_extract_stable == Call("extract_stable", extract_stable(t_args[1]))

Call_extract_date == Call("extract_date", extract_date(t_args[1]))

Call_extract_tourney_day == Call("extract_tourney_day", extract_tourney_day(t_args[1]))

Call_extract_h2h_rank == Call("extract_h2h_rank", extract_h2h_rank(t_args[1]))

Call_extract_outcome == Call("extract_outcome", extract_outcome(t_args[1]))

Call_extract_kimarite == Call("extract_kimarite", extract_kimarite(t_args[1]))

Call_extract_years ==
    Call("extract_years", extract_years(t_args[1], t_args[2], t_args[3]))

Call_extract_bout_title_tags ==
    Call("extract_bout_title_tags", extract_bout_title_tags(t_args[1]))

Call_extract_body_specs == Call("extract_body_specs", extract_body_specs(t_args[1]))

Call_extract_record == Call("extract_record", extract_record(t_args[1]))

NextText ==
    \/ Call_map_rank
    \/ Call_extract_rank
    \/ Call_extract_birthplace
    \/ Call_extract_stable
    \/ Call_extract_date
    \/ Call_extract_tourney_day
    \/ Call_extract_h2h_rank
    \/ Call_extract_outcome
    \/ Call_extract_kimarite
    \/ Call_extract_years
    \/ Call_extract_bout_title_tags
    \/ Call_extract_body_specs
    \/ Call_extract_record

SpecText == InitText /\ [][NextText]_vars

----------------------------------------------------------------------------
(* scrape_multiple_h2h.py and rikishi_scrape.full_h2h_scrape *)

\* line 141: the table is saved at every index that is a multiple of this
CheckpointEvery == 100

\* the last index of the rows of the database page (row 0 holds the headers)
MaxInd == 101

\* what the script reads: the reference table after the filter of lines 87-91
\* (two of its rows share name and stable), a table loaded from an earlier
\* run, the rows of one bout table, the opponents of one bout page, and the
\* subjects behind the rows of the database page. An opponent carries the
\* title attribute of its link, how match_ID ends for it, and its bout rows.
BatchInputs ==
    LET bout(date_raw, outcome1_raw) ==
            [date_raw |-> date_raw, day_raw |-> <<"D", "a", "y", " ", "4">>,
             rank1_raw |-> <<"M", "9", "w">>, rank2_raw |-> <<"O", "1", "e">>,
             outcome1_raw |-> <<"i", "m", "g", "/", "h", "o", "s", "h", "i", "_">>
                                \o outcome1_raw \o <<".", "g", "i", "f">>,
             outcome2_raw |-> <<"i", "m", "g", "/", "h", "o", "s", "h", "i", "_",
                                "k", "u", "r", "o", ".", "g", "i", "f">>,
             kimarite_raw |-> <<"y", "o", "r", "i", "k", "i", "r", "i">>]
        won == bout(<<"2", "0", "0", "1", ".", "1", "1">>, <<"s", "h", "i", "r", "o">>)
        held == bout(<<"2", "0", "0", "1", ".", "1", "1">>, <<"a", "z", "u", "k", "a", "r", "i">>)
        undated == bout(<<>>, <<"s", "h", "i", "r", "o">>)
        opponent(title, match, rows) ==
            [shikona2 |-> <<"K", "a", "i", "o">>, title |-> title, match |-> match,
             rows |-> rows]
        known == opponent(<<"K", "a", "i", "o", ",", " ", "T", "o", "m", "o", "z", "u", "n", "a", ",", " ", "F", "u", "k", "u", "o", "k", "a", ",", " ", "1", "9", "7", "2", ",", " ", "1", "9", "8", "8", ".", "0", "3", ",", " ", ",", " ", "1", "8", "5", " ", "c", "m", ",", " ", "O", "1">>, Returned(RikishiID(2)), <<won>>)
        untagged == opponent(<<"K", "a", "i", "o", ",", " ", "T", "o", "m", "o", "z", "u", "n", "a">>, Returned(RikishiID(2)), <<won>>)
        stableless == opponent(<<"K", "a", "i", "o", ",", " ", "-", ",", " ", "F", "u", "k", "u", "o", "k", "a", ",", " ", "1", "9", "7", "2", ",", " ", "1", "9", "8", "8", ".", "0", "3", ",", " ", ",", " ", "1", "8", "5", " ", "c", "m", ",", " ", "O", "1">>, Returned(RikishiID(2)), <<won>>)
        unresolved == opponent(<<"K", "a", "i", "o", ",", " ", "T", "o", "m", "o", "z", "u", "n", "a", ",", " ", "F", "u", "k", "u", "o", "k", "a", ",", " ", "1", "9", "7", "2", ",", " ", "1", "9", "8", "8", ".", "0", "3", ",", " ", ",", " ", "1", "8", "5", " ", "c", "m", ",", " ", "O", "1">>, Raised("Exception"), <<won>>)
        subject(shikona1, heya, h2h_records) ==
            [shikona |-> shikona1, heya |-> heya, h2h_records |-> h2h_records]
    IN  [filtered_df |->
            <<[rikishi_ID |-> RikishiID(1), shikona |-> <<"a", "b">>, sumo_stable |-> <<"s", "t">>],
              [rikishi_ID |-> RikishiID(2), shikona |-> <<"a">>, sumo_stable |-> <<"s", "t">>],
              [rikishi_ID |-> RikishiID(3), shikona |-> <<"a">>, sumo_stable |-> <<"s", "t">>]>>,
         loaded |->
            <<[date |-> Date(1999, 1, 1), tourney_day |-> 1,
               ID1 |-> RikishiID(2), shikona1 |-> <<"a">>,
               rank1 |-> Rank(Tier.Juryo, <<"3">>), outcome1 |-> <<"k", "u", "r", "o">>,
               kimarite |-> <<"y", "o", "r", "i", "k", "i", "r", "i">>,
               ID2 |-> RikishiID(3), shikona2 |-> <<"a">>,
               rank2 |-> Rank(Tier.Juryo, <<"4">>), outcome2 |-> <<"s", "h", "i", "r", "o">>,
               flag |-> FALSE]>>,
         subjects |->
            {subject(<<"a", "b">>, <<"-">>, <<known>>),
             subject(<<"a", "b">>, <<>>, <<known>>),
             subject(<<"z", "z">>, <<"s", "t">>, <<known>>),
             subject(<<"a">>, <<"s", "t">>, <<known>>),
             subject(<<>>, <<"s", "t">>, <<known>>),
             subject(<<"a", "b">>, <<"s", "t">>, <<>>),
             subject(<<"a", "b">>, <<"s", "t">>, <<known>>),
             subject(<<"a", "b">>, <<"s", "t">>, <<untagged>>),
             subject(<<"a", "b">>, <<"s", "t">>, <<stableless, known>>),
             subject(<<"a", "b">>, <<"s", "t">>, <<known, unresolved>>),
             subject(<<"a", "b">>, <<"s", "t">>, <<opponent(<<"K", "a", "i", "o", ",", " ", "T", "o", "m", "o", "z", "u", "n", "a", ",", " ", "F", "u", "k", "u", "o", "k", "a", ",", " ", "1", "9", "7", "2", ",", " ", "1", "9", "8", "8", ".", "0", "3", ",", " ", ",", " ", "1", "8", "5", " ", "c", "m", ",", " ", "O", "1">>, Returned(RikishiID(2)), <<won, held>>)>>),
             subject(<<"a", "b">>, <<"s", "t">>, <<opponent(<<"K", "a", "i", "o", ",", " ", "T", "o", "m", "o", "z", "u", "n", "a", ",", " ", "F", "u", "k", "u", "o", "k", "a", ",", " ", "1", "9", "7", "2", ",", " ", "1", "9", "8", "8", ".", "0", "3", ",", " ", ",", " ", "1", "8", "5", " ", "c", "m", ",", " ", "O", "1">>, Returned(RikishiID(2)), <<undated>>)>>)}]

\* rikishi_scrape.py lines 194-277: one pass of the loop over the opponents of
\* the bout page. An opponent whose title lacks stable, birth date or debut
\* gives no rows; an exception of match_ID or of a parser ends the scrape.
RecordRows(shikona1, ID1, record) ==
    LET parsers == <<"extract_date", "extract_tourney_day", "extract_h2h_rank",
                     "extract_h2h_rank", "extract_outcome", "extract_outcome",
                     "extract_kimarite">>
        unicode(cell) == IF cell = NA THEN NoneText ELSE Get(cell)
        \* lines 235-275: one row of the bout table
        data_dict(row) ==
            CHOOSE result \in
                {LET failed == {j \in DOMAIN parsers : parsed[j].exc # "none"}
                     first == CHOOSE j \in failed : \A i \in failed : j <= i
                 IN  IF failed # {}
                     THEN [exc |-> parsed[first].exc, origin |-> parsers[first]]
                     ELSE [exc |-> "none",
                           value |-> [date |-> parsed[1].value,
                                      tourney_day |-> parsed[2].value,
                                      ID1 |-> ID1, shikona1 |-> shikona1,
                                      rank1 |-> unicode(parsed[3].value),
                                      outcome1 |-> parsed[5].value,
                                      kimarite |-> unicode(parsed[7].value),
                                      ID2 |-> record.match.value,
                                      shikona2 |-> record.shikona2,
                                      rank2 |-> unicode(parsed[4].value),
                                      outcome2 |-> parsed[6].value,
                                      flag |-> FALSE]] :
                 parsed \in {<<extract_date(row.date_raw),
                               extract_tourney_day(row.day_raw),
                               extract_h2h_rank(row.rank1_raw),
                               extract_h2h_rank(row.rank2_raw),
                               extract_outcome(row.outcome1_raw),
                               extract_outcome(row.outcome2_raw),
                               extract_kimarite(row.kimarite_raw)>>}} : TRUE
        h2h_rows(dicts) ==
            LET failed == {k \in DOMAIN dicts : dicts[k].exc # "none"}
                first == CHOOSE k \in failed : \A i \in failed : k <= i
            IN  IF failed # {}
                THEN dicts[first]
                ELSE [exc |-> "none", value |-> [k \in DOMAIN dicts |-> dicts[k].value]]
    IN  CHOOSE result \in
            {IF tags.sumo_stable = NA \/ tags.bday = NA \/ tags.debut = NA
             THEN [exc |-> "none", value |-> <<>>]
             ELSE IF record.match.exc # "none"
             THEN [exc |-> record.match.exc, origin |-> "match_ID"]
             ELSE CHOOSE rows \in
                     {h2h_rows(dicts) :
                        dicts \in {[k \in DOMAIN record.rows |->
                                      data_dict(record.rows[k])]}} : TRUE :
             tags \in {extract_bout_title_tags(record.title).value}} : TRUE

\* rikishi_scrape.py lines 164-282, on the records of the bout page
RECURSIVE full_h2h_scrape(_, _, _)
full_h2h_scrape(shikona1, ID1, h2h_records) ==
    IF h2h_records = <<>>
    THEN [exc |-> "none", value |-> <<>>]
    ELSE CHOOSE all_rows \in
            {IF h2h_rows.exc # "none"
             THEN h2h_rows
             ELSE CHOOSE extended \in
                     {IF rest.exc # "none"
                      THEN rest
                      ELSE [exc |-> "none", value |-> h2h_rows.value \o rest.value] :
                      rest \in {full_h2h_scrape(shikona1, ID1, Tail(h2h_records))}} : TRUE :
             h2h_rows \in {RecordRows(shikona1, ID1, Head(h2h_records))}} : TRUE

\* scrape_multiple_h2h.py lines 107-129 for each subject: the stable that
\* bouturl_scrape returns, the reference rows of that name and stable, and,
\* where there is exactly one, how full_h2h_scrape ends
BatchPages ==
    {[subject |-> found[1], sumo_stable |-> found[2], ID_df |-> found[3],
      data_rows |->
         IF found[2] = NA \/ Cardinality(found[3]) # 1
         THEN NA
         ELSE full_h2h_scrape(found[1].shikona,
                              BatchInputs.filtered_df[CHOOSE i \in found[3] : TRUE].rikishi_ID,
                              found[1].h2h_records)] :
        found \in
            {<<s, extract_stable(s.heya).value,
               {i \in DOMAIN BatchInputs.filtered_df :
                   /\ BatchInputs.filtered_df[i].shikona = s.shikona
                   /\ Some(BatchInputs.filtered_df[i].sumo_stable) = extract_stable(s.heya).value}>> :
             s \in BatchInputs.subjects}}

\* lines 26-51: a fresh start, or a table loaded from the saved file with
\* row_jump set past the rows it covers
InitBatch ==
    /\ IdleMatch
    /\ IdleDW
    /\ IdleFeat
    /\ IdleText
    /\ \/ s_h2h_df = <<>> /\ s_row_jump = 1
       \/ s_h2h_df = BatchInputs.loaded /\ s_row_jump = CheckpointEvery + 1
    /\ s_pc = "loop"
    /\ s_ind = 0
    /\ temp_full_h2h = NA
    /\ s_subject = NA
    /\ s_step = "none"
    /\ s_data_rows = <<>>
    /\ s_exc = NoExc

\* lines 97-144: one pass of the loop over the rows of the database page.
\* bouturl_scrape raises when the profile holds no name (rikishi_scrape.py
\* lines 324-325); a subject without stable or without exactly one reference
\* row of its name and stable is passed over; line 131 adds a float to a
\* string, which raises TypeError once full_h2h_scrape has returned.
BatchRow ==
    /\ s_pc = "loop"
    /\ s_ind <= MaxInd
    /\ \E page \in BatchPages :
         LET save == IF s_ind % CheckpointEvery = 0 THEN Some(s_h2h_df) ELSE temp_full_h2h
             proceed(step, saved) ==
                 /\ s_step' = step
                 /\ temp_full_h2h' = saved
                 /\ s_ind' = s_ind + 1
                 /\ UNCHANGED <<s_pc, s_data_rows, s_exc>>
             stop(step, rows, exc) ==
                 /\ s_step' = step
                 /\ s_data_rows' = rows
                 /\ s_pc' = "raised"
                 /\ s_exc' = exc
                 /\ UNCHANGED <<s_ind, temp_full_h2h>>
         IN  IF s_ind < s_row_jump
             THEN /\ s_subject' = s_subject
                  /\ proceed("jumped", temp_full_h2h)
             ELSE /\ s_subject' = Some(page.subject)
                  /\ IF page.subject.shikona = <<>>
                     THEN stop("fatal", s_data_rows,
                               [type |-> "Exception", origin |-> "bouturl_scrape"])
                     ELSE IF page.sumo_stable = NA \/ Cardinality(page.ID_df) # 1
                     THEN proceed("skipped", save)
                     ELSE IF page.data_rows.exc # "none"
                     THEN stop("fatal", s_data_rows,
                               [type |-> page.data_rows.exc, origin |-> page.data_rows.origin])
                     ELSE stop("scraped", page.data_rows.value,
                               [type |-> "TypeError", origin |-> "scrape_multiple_h2h"])
    /\ UNCHANGED <<s_row_jump, s_h2h_df>>
    /\ UNCHANGED <<vars_match, vars_dw, vars_feat, vars_text>>

\* lines 147-152: the end of the loop
BatchDone ==
    /\ s_pc = "loop"
    /\ s_ind > MaxInd
    /\ s_pc' = "done"
    /\ UNCHANGED <<s_ind, s_row_jump, s_h2h_df, temp_full_h2h, s_subject, s_step,
                   s_data_rows, s_exc>>
    /\ UNCHANGED <<vars_match, vars_dw, vars_feat, vars_text>>

NextBatch ==
    \/ BatchRow
    \/ BatchDone

SpecBatch == InitBatch /\ [][NextBatch]_vars

----------------------------------------------------------------------------
(* Properties of map_rank *)

Ended(fn) == t_fn = fn /\ t_ret # NA

NamedValue(t) ==
    CASE t = Tier.Yokozuna -> 1 [] t = Tier.Ozeki -> 2 [] t = Tier.Sekiwake -> 3 [] t = Tier.Komusubi -> 4

\* C12: map_rank maps the four named tiers to 1, 2, 3, 4, maps a label
\* '<Tier> <N>' of the six numbered tiers to N plus 4, 21, 35, 95, 195, 320,
\* and raises for a label that holds none of the ten tier names; it never
\* returns an absent value.
C12_MapRankValues ==
    Ended("map_rank") =>
        LET label == t_args[1]
        IN  /\ label \in NamedTiers
                => t_ret = Returned(NamedValue(label))
            /\ \A t \in NumberedTiers, n \in 1..MaxRankNumber :
                 label = Rank(t, NumeralText(n))
                     => t_ret = Returned(n + CASE t = Tier.Maegashira -> 4
                                               [] t = Tier.Juryo -> 21
                                               [] t = Tier.Makushita -> 35
                                               [] t = Tier.Sandanme -> 95
                                               [] t = Tier.Jonidan -> 195
                                               [] t = Tier.Jonokuchi -> 320)
            /\ (\A t \in NamedTiers \cup NumberedTiers : ~IsSubstring(t, label))
                 => t_ret.exc # "none"
            /\ t_ret.exc = "none" => t_ret.value \in Int

C12_Witness ==
    /\ Ended("map_rank")
    /\ t_args[1] = NoneText
    /\ t_ret = Raised("Exception")

\* C13: map_rank is strictly increasing in N within each numbered tier, and
\* for N >= 1 the value of a numbered-tier label is greater than the offset of
\* its own tier and of every higher tier; Maegashira 1 < Juryo 1 < Makushita 1.
C13_MapRankOrder ==
    Ended("map_rank") =>
        \A k \in DOMAIN title_list, n \in 1..MaxRankNumber :
            t_args[1] = Rank(title_list[k], NumeralText(n))
                => /\ t_ret.exc = "none"
                   /\ map_rank(Rank(title_list[k], NumeralText(n + 1))).value > t_ret.value
                   /\ \A j \in 1..k : t_ret.value > offset_list[j]
                   /\ n = 1 /\ k < Len(title_list)
                        => t_ret.value < map_rank(Rank(title_list[k + 1], NumeralText(1))).value

C13_Witness ==
    /\ Ended("map_rank")
    /\ t_args[1] = Rank(Tier.Juryo, <<"1">>)
    /\ t_ret = Returned(22)

----------------------------------------------------------------------------
(* Properties of the feature rows *)

\* the record the loop handled last
LastRecord == h2h_df[f_pos - 1]

\* lines 77 and 87: the loop goes on to build a feature row for the record
Qualifies(row) ==
    /\ row.label >= 0 /\ row.label <= Len(h2h_df)
    /\ RikishiRows(row.ID1) # {} /\ RikishiRows(row.ID2) # {}

LastHandled == f_pc \in {"loop", "done"} /\ f_pos > 1 /\ Qualifies(LastRecord)

\* the feature row of the last record with the order forced
ForcedRow(order) ==
    LET row == LastRecord
    IN  FeatureDict(order, row.outcome1, row.outcome2,
                    Differences(h2h_df, row.date, row.ID1, row.ID2, row.rank1, row.rank2),
                    row.ID1, row.ID2)

LastEmitted == compiled_dicts[Len(compiled_dicts)]

\* every difference negated and the two identifiers exchanged
NegatedAndExchanged(r) ==
    [r EXCEPT !.height_diff = 0 - r.height_diff, !.weight_diff = 0 - r.weight_diff,
              !.age_diff = FracNeg(r.age_diff), !.active_diff = FracNeg(r.active_diff),
              !.rank_diff = 0 - r.rank_diff, !.h2h_diff = FracNeg(r.h2h_diff),
              !.ID1 = r.ID2, !.ID2 = r.ID1]

\* C14, as stated: for a qualifying match the row made with the swap forced
\* on, with its differences negated and its identifiers exchanged, equals the
\* row made with the swap forced off.
C14_SwapInvariance ==
    LastHandled => NegatedAndExchanged(ForcedRow(2)) = ForcedRow(1)

\* C14, amended: the two rows agree once the differences are negated, the
\* identifiers exchanged and the label complemented, the label of the switched
\* row being that of the other competitor.
C14_SwapInvarianceUpToLabel ==
    LastHandled =>
        /\ Len(compiled_dicts) > 0
        /\ LastEmitted \in {ForcedRow(1), ForcedRow(2)}
        /\ LET back == NegatedAndExchanged(ForcedRow(2))
           IN  [back EXCEPT !.label = 1 - back.label] = ForcedRow(1)

C14_Witness ==
    /\ LastHandled
    /\ LastEmitted = ForcedRow(2)
    /\ LastEmitted.rank_diff > 0
    /\ LastEmitted.h2h_diff.num # 0

\* the competitor who won the last record's bout
Winner(row) == IF row.outcome1 = "shiro" THEN row.ID1 ELSE row.ID2

\* the rank the record gives to competitor x
RankOf(row, x) == IF row.ID1 = x THEN row.rank1 ELSE row.rank2

Profile(x) == feature_table[CHOOSE i \in DOMAIN feature_table : RikishiID(i) = x]

\* C15: in every emitted feature row, whichever way the order went, the
\* label is 1 exactly when the competitor stored as the row's ID1 won the bout
\* and 0 exactly when he lost, and every difference is the value of the row's
\* ID1 competitor minus the value of the row's ID2 competitor.
C15_LabelAndDifferencesFollowStoredOrder ==
    LastHandled =>
        LET row == LastRecord
            r == LastEmitted
            first == Profile(r.ID1)
            second == Profile(r.ID2)
            wp == calculate_h2h_wp(row.date, RelDf(h2h_df, r.ID1, r.ID2, row.date), r.ID1)
        IN  /\ {r.ID1, r.ID2} = {row.ID1, row.ID2}
            /\ r.label = 1 <=> r.ID1 = Winner(row)
            /\ r.label = 0 <=> r.ID1 # Winner(row)
            /\ r.height_diff = first.height - second.height
            /\ r.weight_diff = first.weight - second.weight
            /\ r.age_diff = Frac(4 * (row.date - first.bday) * 1461
                                   - 4 * (row.date - second.bday) * 1461, 1461 * 1461)
            /\ r.active_diff = Frac(4 * (row.date - first.debut) * 1461
                                      - 4 * (row.date - second.debut) * 1461, 1461 * 1461)
            /\ r.rank_diff = map_rank(RankOf(row, r.ID1)).value
                               - map_rank(RankOf(row, r.ID2)).value
            /\ r.h2h_diff = Frac(wp[1].num * wp[2].den - wp[2].num * wp[1].den,
                                 wp[1].den * wp[2].den)

C15_Witness ==
    /\ LastHandled
    /\ LastEmitted.ID1 = LastRecord.ID2
    /\ LastEmitted.label = 1
    /\ LastEmitted.height_diff > 0

\* the records of the pickled table that qualify for a feature row: both
\* ranks and the technique present, a win on one side and a loss on the other,
\* both competitors in the reference table
QualifyingRecords ==
    LET Good(r) == /\ RanksPresent(r)
                   /\ WinLoss(r)
                   /\ RikishiRows(r.ID1) # {} /\ RikishiRows(r.ID2) # {}
    IN  SelectSeq(h2h_df, Good)

\* C16: feature assembly emits exactly one feature row for every qualifying
\* match record, in the chronological order of the matches, and no row for any
\* other record (taken when the loop has ended: the rows collected are, one
\* for one and in order, the qualifying records of the date-sorted table).
C16_OneRowPerQualifyingRecord ==
    f_pc = "done" =>
        /\ Len(compiled_dicts) = Len(QualifyingRecords)
        /\ \A k \in DOMAIN compiled_dicts :
             /\ k \in DOMAIN QualifyingRecords
             /\ {compiled_dicts[k].ID1, compiled_dicts[k].ID2}
                  = {QualifyingRecords[k].ID1, QualifyingRecords[k].ID2}
             /\ compiled_dicts[k].label = 1
                  <=> compiled_dicts[k].ID1 = Winner(QualifyingRecords[k])

----------------------------------------------------------------------------
(* Properties of the parsers of data_extraction.py *)

\* the parsers of one field other than the outcome-code parser
FieldParsers ==
    {"extract_rank", "extract_years", "extract_body_specs", "extract_stable",
     "extract_birthplace", "extract_record", "extract_date",
     "extract_tourney_day", "extract_h2h_rank", "extract_kimarite"}

\* C17: no parser of one field other than the outcome-code parser raises an
\* exception, whatever its input string: each of its calls ends with a
\* returned value, which may be absent.
C17_NoFieldParserRaises ==
    \A fn \in FieldParsers : Ended(fn) => t_ret.exc = "none"

C19_RankAtBoutTimeOrAbsent ==
    Ended("extract_h2h_rank") =>
        LET token == RankMatch(Split(Strip(t_args[1]), <<" ">>)[1])
            found == IF token = NA THEN {}
                     ELSE {k \in DOMAIN abbrev_list : abbrev_list[k] = Get(token)[1]}
        IN  /\ t_ret.exc = "none"
            /\ IF found = {} THEN t_ret.value = NA
               ELSE t_ret.value = Some(full_list[CHOOSE k \in found : TRUE]
                                          \o <<" ">> \o Get(token)[2])

\* the dates a call of extract_years or of extract_bout_title_tags returned
DatesReturned ==
    IF t_fn = "extract_years"
    THEN {t_ret.value.bday, t_ret.value.debut, t_ret.value.retirement} \ {NA}
    ELSE {t_ret.value.bday, t_ret.value.debut} \ {NA}

\* C20: every date that extract_years returns (birth, debut, retirement) and
\* every date that extract_bout_title_tags returns (birth, debut) has a year
\* of 1700 or later.
C20_NoDateBefore1700 ==
    (Ended("extract_years") \/ Ended("extract_bout_title_tags")) =>
        \A date \in DatesReturned : Get(date).year >= 1700

\* the retirement field of the call is the literal unknown
RetirementUnknown == t_args[3] = <<"u", "n", "k", "n", "o", "w", "n">>

\* the years from the anchor date to the retirement date, or to now where no
\* retirement date is returned
YearsSince(anchor) ==
    IF t_ret.value.retirement # NA
    THEN YearsOf(DaysBetween(Get(t_ret.value.retirement), Get(anchor)))
    ELSE YearsOf(DaysBetween(Now, Get(anchor)))

\* C21: extract_years returns an age exactly when it returns a birth date and
\* either returns a retirement date or was given a retirement field other than
\* the literal unknown; the age is then the years from the birth date to the
\* retirement date, or to now without one.  The active years follow the same
\* rule with the debut date.  With the literal unknown both are absent.
C21_AgeAndActiveYears ==
    Ended("extract_years") =>
        /\ t_ret.exc = "none"
        /\ t_ret.value.age # NA <=>
              /\ t_ret.value.bday # NA
              /\ t_ret.value.retirement # NA \/ ~RetirementUnknown
        /\ t_ret.value.age # NA => Get(t_ret.value.age) = YearsSince(t_ret.value.bday)
        /\ t_ret.value.active_years # NA <=>
              /\ t_ret.value.debut # NA
              /\ t_ret.value.retirement # NA \/ ~RetirementUnknown
        /\ t_ret.value.active_years # NA =>
              Get(t_ret.value.active_years) = YearsSince(t_ret.value.debut)
        /\ RetirementUnknown => t_ret.value.age = NA /\ t_ret.value.active_years = NA

C21_Witness ==
    /\ Ended("extract_years")
    /\ RetirementUnknown
    /\ t_ret.value.bday # NA
    /\ t_ret.value.debut # NA
    /\ t_ret.value.age = NA
    /\ t_ret.value.active_years = NA

\* the entries of the award list of the record given to extract_record
AwardEntries ==
    LET stats == RecordMatch(t_args[1])
    IN  IF stats = NA \/ Get(stats)[7] = NA THEN <<>>
        ELSE Split(Get(Get(stats)[7]), <<",", " ">>)

AwardKeys ==
    {"yusho", "jun_yusho", "gino_sho", "shukun_sho", "kanto_sho", "kinboshi"}

\* C22: an entry of the award list sets the count of at most one award, so
\* extract_record returns no more award counts than the list has entries; an
\* entry naming Jun-Yusho sets the runner-up count and leaves the count of
\* Yusho alone.
C22_OneAwardPerEntry ==
    (Ended("extract_record") /\ t_ret.exc = "none") =>
        /\ Cardinality({key \in AwardKeys : t_ret.value[key] # NA}) <= Len(AwardEntries)
        /\ (Len(AwardEntries) = 1
              /\ IsSubstring(<<"J", "u", "n", "-", "Y", "u", "s", "h", "o">>, AwardEntries[1]))
             => t_ret.value.yusho = NA /\ t_ret.value.jun_yusho # NA

\* C23: for a record text of the shape wins-losses[-withdrawals]/appearances
\* (tourneys basho)[, awards] extract_record returns these numbers, the
\* withdrawals absent when omitted, and every award count absent when no award
\* list follows; for any other text it returns all eleven fields absent; it
\* never raises.
C23_RecordNumbersOrAllAbsent ==
    Ended("extract_record") =>
        LET stats == RecordMatch(t_args[1])
            Number(group) == IF group = NA THEN NA ELSE Some(DigitsValue(Get(group)))
        IN  /\ t_ret.exc = "none"
            /\ stats = NA => \A key \in DOMAIN t_ret.value : t_ret.value[key] = NA
            /\ stats # NA =>
                  /\ t_ret.value.wins = Number(Get(stats)[1])
                  /\ t_ret.value.losses = Number(Get(stats)[2])
                  /\ t_ret.value.withdrawals = Number(Get(stats)[3])
                  /\ t_ret.value.appearances = Number(Get(stats)[5])
                  /\ t_ret.value.tourneys = Number(Get(stats)[6])
                  /\ Get(stats)[7] = NA => \A key \in AwardKeys : t_ret.value[key] = NA

\* C26: for numbers within the documented tier sizes, map_rank gives every
\* label of a numbered tier a value above the four named tiers and above the
\* value of every label of every higher numbered tier.
C26_TierRangesDisjointAndOrdered ==
    Ended("map_rank") =>
        \A k \in DOMAIN title_list : \A n \in 1..tier_sizes[k] :
            t_args[1] = Rank(title_list[k], NumeralText(n))
                => /\ t_ret.exc = "none"
                   /\ t_ret.value > 4
                   /\ \A j \in 1..(k - 1) : \A m \in 1..tier_sizes[j] :
                        map_rank(Rank(title_list[j], NumeralText(m))).value < t_ret.value

C26_Witness ==
    /\ Ended("map_rank")
    /\ t_args[1] = Rank(Tier.Sandanme, <<"1", "0", "0">>)
    /\ t_ret = Returned(195)

\* C29: map_rank accepts every rank label that extract_h2h_rank returns: it
\* returns an integer and does not raise, and for a label of one of the four
\* named tiers it returns the value of the tier whatever the number.
C29_BoutRankIsMappable ==
    (Ended("extract_h2h_rank") /\ t_ret.exc = "none" /\ t_ret.value # NA) =>
        /\ map_rank(Get(t_ret.value)).exc = "none"
        /\ map_rank(Get(t_ret.value)).value \in Int
        /\ \A t \in NamedTiers :
             StartsWith(Get(t_ret.value), t)
                => map_rank(Get(t_ret.value)).value = NamedValue(t)

C29_Witness ==
    /\ Ended("extract_h2h_rank")
    /\ t_args[1] = <<"O", "1", "w">>
    /\ t_ret = Returned(Some(Rank(Tier.Ozeki, <<"1">>)))
    /\ map_rank(Get(t_ret.value)) = Returned(2)

\* C28: when the tier-1 filter of match_ID yields no row, or yields several
\* and the tier-2 filter yields none, the call ends with the error 'Could not
\* find sumo ID for: ' followed by the name the caller gave, and the profile
\* is never re-fetched.
C28_NoCandidateFailsWithoutFetch ==
    (\/ Cardinality(NameStableRows) = 0
     \/ Cardinality(NameStableRows) > 1 /\ Cardinality(DateRows) = 0) =>
        /\ ~Took("fetch")
        /\ ~compiled_stats.fetched
        /\ m_pc \in {"tier1", "tier2", "check", "raised"}
        /\ m_pc = "raised" =>
              /\ m_exc.type = "Exception"
              /\ m_exc.text = "Could not find sumo ID for: "
              /\ m_exc.name = m_args.shikona
              /\ ID = NA

C28_Witness ==
    /\ m_pc = "raised"
    /\ m_trace = <<"tier1", "tier2">>
    /\ Cardinality(NameStableRows) > 1
    /\ Cardinality(DateRows) = 0
    /\ m_exc.type = "Exception"
    /\ m_exc.name = m_args.shikona

\* C27: in feature assembly the history passed to calculate_h2h_wp for a
\* match holds only bouts of the table between the two competitors of the
\* match, stored in either order, dated strictly before the date of the match;
\* neither the match itself nor a bout of the same date is in it, in whatever
\* order the sort leaves the matches. In predict_outcome the history holds
\* only bouts of the two competitors dated before the current date.
C27_HistoryIsEarlierBoutsOfThePair ==
    /\ [][(FG_Row /\ (h2h_call' # h2h_call \/ compiled_dicts' # compiled_dicts))
            => LET row == h2h_df[f_pos]
                   rel_df == h2h_call'.rel_df
               IN  /\ h2h_call'.current_date = row.date
                   /\ \A k \in DOMAIN rel_df :
                        /\ \E j \in DOMAIN h2h_df : h2h_df[j] = rel_df[k]
                        /\ {rel_df[k].ID1, rel_df[k].ID2} = {row.ID1, row.ID2}
                        /\ rel_df[k].date < row.date
                        /\ rel_df[k].label # row.label]_vars
    /\ [][PredictOutcome
            => \A k \in DOMAIN h2h_call'.rel_df :
                 /\ h2h_call'.ID1 \in {h2h_call'.rel_df[k].ID1, h2h_call'.rel_df[k].ID2}
                 /\ {h2h_call'.rel_df[k].ID1, h2h_call'.rel_df[k].ID2}
                        = {RikishiID(i) : i \in DOMAIN feature_table}
                 /\ h2h_call'.rel_df[k].date < h2h_call'.current_date]_vars

C27_Witness ==
    /\ Called
    /\ h2h_call.caller = "feature_generation"
    /\ f_pos = 4
    /\ \A k \in 1..3 : {h2h_df[k].ID1, h2h_df[k].ID2} = {RikishiID(1), RikishiID(2)}
    /\ h2h_df[1].date < h2h_df[2].date
    /\ h2h_df[2].date = h2h_df[3].date
    /\ h2h_call.current_date = h2h_df[3].date
    /\ h2h_call.rel_df = <<h2h_df[1]>>

----------------------------------------------------------------------------
(* Properties of the head-to-head batch pass *)

\* the opponents of the last subject whose title gives no stable, no birth
\* date or no debut date
UntaggedOpponents ==
    {k \in DOMAIN Get(s_subject).h2h_records :
        LET tags == extract_bout_title_tags(Get(s_subject).h2h_records[k].title).value
        IN  tags.sumo_stable = NA \/ tags.bday = NA \/ tags.debut = NA}

\* C24: a subject without stable or without exactly one reference row of its
\* name and stable, and an opponent whose title lacks stable, birth date or
\* debut date, are passed over and the pass goes on; the pass stops only on
\* an identity that match_ID does not resolve or on an unknown outcome code,
\* and then with that exception.
C24_AbsenceSkipsFatalStops ==
    /\ s_step = "skipped" => s_pc # "raised"
    /\ s_pc = "raised" =>
          \/ s_exc.origin = "match_ID"
          \/ s_exc.origin = "extract_outcome" /\ s_exc.type = "Exception"
    /\ (s_step \in {"scraped", "fatal"} /\ s_exc.origin = "match_ID") =>
          /\ s_pc = "raised"
          /\ \E k \in DOMAIN Get(s_subject).h2h_records :
                /\ k \notin UntaggedOpponents
                /\ Get(s_subject).h2h_records[k].match.exc = s_exc.type

\* C25: once the row of an index that is a multiple of 100 (and not below
\* row_jump) has been processed, the saved file holds the table that was
\* loaded followed by the bout rows of every subject row processed up to that
\* index; rows below row_jump are not processed again and leave the loaded
\* table as it is.
C25_CheckpointHoldsAllRowsSoFar ==
    /\ (s_step \in {"skipped", "scraped"} /\ s_pc = "loop"
          /\ (s_ind - 1) % CheckpointEvery = 0)
            => temp_full_h2h = Some(s_h2h_df)
    /\ (s_step = "scraped" /\ s_ind % CheckpointEvery = 0)
            => /\ s_pc = "loop"
               /\ temp_full_h2h = Some(s_h2h_df)
               /\ Len(s_h2h_df) >= Len(s_data_rows)
               /\ \A k \in DOMAIN s_data_rows :
                    s_h2h_df[Len(s_h2h_df) - Len(s_data_rows) + k] = s_data_rows[k]
    /\ s_step = "jumped" => (s_subject = NA /\ temp_full_h2h = NA)

\* C30: when the subject has exactly one reference row of its name and stable
\* and full_h2h_scrape has returned, the rows it returned are at the end of
\* the accumulated table and the pass is at the next row: it has not stopped.
C30_CompletedScrapeIsAppended ==
    s_step = "scraped" =>
        /\ s_pc # "raised"
        /\ Len(s_h2h_df) >= Len(s_data_rows)
        /\ \A k \in DOMAIN s_data_rows :
             s_h2h_df[Len(s_h2h_df) - Len(s_data_rows) + k] = s_data_rows[k]

============================================================================
